---------------------------- MODULE Spec2Model ----------------------------
(***************************************************************************)
(* Verification model of the integrity-os core:                            *)
(*   CausalGraph          (src/core/causal_graph.py)                       *)
(*   DissonanceDetector   (src/core/dissonance_detector.py)                *)
(*   InhibitionController (src/core/inhibition_controller.py)              *)
(*                                                                         *)
(* Numbers.  Python floats in [0,1] (confidences, axis values) are exact   *)
(* rationals here: an axis value or confidence x is the integer x * Unit,  *)
(* Unit = 600, so that 0.95, 0.70, 0.75, 0.4, 0.9, 0.7/3 and 0.7/4 are all *)
(* integers.  The weights 0.85 / 0.10 / 0.05 are the integers 85 / 10 / 5  *)
(* (hundredths), so a total score s is the integer s * 100 * Unit.         *)
(* Node ids are ASCII ("Hahnemuehle" for the source's "Hahnemühle").       *)
(***************************************************************************)
EXTENDS Integers, Sequences, FiniteSets, TLC

VARIABLES
    semNodes,        \* CausalGraph.semantic: node ids in insertion order
    nodeAttr,        \* CausalGraph.semantic.nodes[id]: attribute record
    semEdges,        \* CausalGraph.semantic: edges <<u, v>> in insertion order
    edgeAttr,        \* CausalGraph.semantic[u][v]: attribute record
    epiNodes,        \* CausalGraph.episodic: learning-event keys in insertion order
    epiAttr,         \* CausalGraph.episodic.nodes[key]
    last_update,     \* CausalGraph.last_update
    now,             \* the wall clock read by datetime.now(), in whole seconds
    detection_history,      \* DissonanceDetector.detection_history
    total_detections,       \* DissonanceDetector.total_detections
    inhibitions_triggered,  \* DissonanceDetector.inhibitions_triggered
    total_decisions,        \* InhibitionController.total_decisions
    inhibitions_by_type,    \* InhibitionController.inhibitions_by_type
    total_tokens_saved,     \* InhibitionController.total_tokens_saved
    decision_history,       \* InhibitionController.decision_history
    factLog,         \* observer: the add_verified_fact calls made, in order
    lastResult,      \* observer: the last calculate_dissonance call and its result
    lastDecision,    \* observer: the last decide_action call and its outcome
    lastOp,          \* observer: name of the last operation
    decideCalls,     \* observer: decide_action calls made
    lastQuery,       \* observer: the last query_relationship / get_node_info call
    calcCalls,       \* observer: calculate_dissonance calls since the last reset
    threads,         \* concurrent callers: position and locals of each thread
    lastSearch,      \* observer: the last search_nodes call and its result
    crawl,           \* WikipediaCrawler.crawl_topic: its locals and the crawler's caches
    request,         \* WikipediaCrawler._make_request: the call in progress
    opCount          \* observer: operations performed (session budget)

graphVars    == <<semNodes, nodeAttr, semEdges, edgeAttr, epiNodes, epiAttr,
                  last_update, now>>
detectorVars == <<detection_history, total_detections, inhibitions_triggered>>
policyVars   == <<total_decisions, inhibitions_by_type, total_tokens_saved,
                  decision_history>>
observerVars == <<factLog, lastResult, lastDecision, lastOp, decideCalls,
                  lastQuery, calcCalls, opCount>>
auxVars      == <<threads, lastSearch, crawl, request>>
vars         == <<graphVars, detectorVars, policyVars, observerVars, auxVars>>

---------------------------------------------------------------------------
(* Units and bounds *)

Unit == 600

MaxFacts     == 2   \* add_verified_fact calls explored
MaxClock     == 1   \* seconds the clock may advance
MaxDetect    == 2   \* calculate_dissonance calls per session explored
MaxDecisions == 2   \* decide_action calls explored
MaxTokens    == 2   \* largest token_index / total_tokens_planned drawn
MaxOps       == 2   \* operations of a mixed session (Spec)
MaxThreads   == 2   \* threads calling concurrently
MaxCrawls    == 2   \* calls of crawl_topic on one crawler
MaxPages     == 3   \* largest max_pages given to crawl_topic
MaxCrawlDepth == 1  \* largest max_depth given to crawl_topic
MaxRequests  == 2   \* calls of _make_request explored

Range(s) == {s[i] : i \in 1..Len(s)}

RECURSIVE SumSeq(_)
SumSeq(s) == IF s = <<>> THEN 0 ELSE Head(s) + SumSeq(Tail(s))

Min(a, b) == IF a <= b THEN a ELSE b
Max(a, b) == IF a >= b THEN a ELSE b

---------------------------------------------------------------------------
(* CausalGraph: the seed knowledge built by the constructor *)

SeedCompanies == <<"Hahnemuehle", "Canson", "Awagami">>

SeedPapers ==
    [c \in {"Hahnemuehle", "Canson", "Awagami"} |->
        CASE c = "Hahnemuehle" ->
                <<"Hahnemuehle_FineArt_Baryta", "Hahnemuehle_Photo_Rag",
                  "Hahnemuehle_Bamboo", "Hahnemuehle_German_Etching",
                  "Hahnemuehle_Museum_Etching">>
          [] c = "Canson" ->
                <<"Canson_Infinity_Baryta", "Canson_Platine_Fibre_Rag",
                  "Canson_Rag_Photographique">>
          [] OTHER ->
                <<"Awagami_Kozo", "Awagami_Bamboo", "Awagami_Unryu">>]

SeedNodes ==
    <<"Hahnemuehle">> \o SeedPapers["Hahnemuehle"] \o
    <<"Canson">> \o SeedPapers["Canson"] \o
    <<"Awagami">> \o SeedPapers["Awagami"] \o
    <<"Marc_Hesse_FineArt">> \o
    <<"Germany", "Japan", "France">> \o
    <<"Fine_Art_Printing", "Color_Management", "Bamboo_Fiber", "Cotton_Fiber">>

SeedNodeType(n) ==
    CASE n \in Range(SeedCompanies) -> "company"
      [] n = "Marc_Hesse_FineArt" -> "business"
      [] n \in {"Germany", "Japan", "France"} -> "country"
      [] n \in {"Fine_Art_Printing", "Color_Management", "Bamboo_Fiber",
                "Cotton_Fiber"} -> "concept"
      [] OTHER -> "paper"

ManufacturesEdges(c) == [i \in 1..Len(SeedPapers[c]) |-> <<c, SeedPapers[c][i]>>]

SeedEdges ==
    ManufacturesEdges("Hahnemuehle") \o ManufacturesEdges("Canson") \o
    ManufacturesEdges("Awagami") \o
    << <<"Marc_Hesse_FineArt", "Hahnemuehle">>,
       <<"Marc_Hesse_FineArt", "Canson">> >>

\* Seed edges carry relation and confidence only: no source, no added_at key.
SeedEdgeAttr(e) ==
    [relation   |-> IF e[1] = "Marc_Hesse_FineArt" THEN "certified_partner"
                    ELSE "manufactures",
     confidence |-> Unit,
     source     |-> "absent",
     added_at   |-> -1]

\* CausalGraph.self_model: written by the constructor only.
SelfModelNodes ==
    {"System_Identity", "Core_Function", "Consciousness_Framework",
     "Epistemic_Boundaries", "Dissonance_Mechanism"}

---------------------------------------------------------------------------
(* networkx.DiGraph primitives, as the core uses them *)

HasNode(N, n) == n \in Range(N)

HasEdge(E, u, v) == <<u, v>> \in Range(E)

NumberOfNodes(N) == Len(N)

NumberOfEdges(E) == Len(E)

\* Faulty variant of AddNodeSeq: the node is not created.
AddNodeSeqDropsNode(N, n) == N

\* DiGraph.add_node(n, **attrs): a new node is appended, an existing node
\* has the given attributes updated.
AddNodeSeq(N, n) == IF HasNode(N, n) THEN N ELSE Append(N, n)

\* Faulty variants of add_edge, against which the ingestion properties are
\* tested: a multigraph that appends a parallel edge, an edge stored in the
\* opposite direction, and (further down) attributes that keep the first
\* write.
AddEdgeSeqAlwaysAppend(E, u, v) == Append(E, <<u, v>>)

AddEdgeSeqReversed(E, u, v) ==
    IF HasEdge(E, v, u) THEN E ELSE Append(E, <<v, u>>)

\* DiGraph.add_edge(u, v, **attrs): a new edge is appended to the adjacency,
\* an existing edge keeps its place.
AddEdgeSeq(E, u, v) == IF HasEdge(E, u, v) THEN E ELSE Append(E, <<u, v>>)

AddEdgeAttrKeepFirst(A, u, v, attrs) ==
    IF <<u, v>> \in DOMAIN A THEN A
    ELSE [e \in DOMAIN A \cup {<<u, v>>} |-> IF e = <<u, v>> THEN attrs ELSE A[e]]

\* ... and its attribute dict is updated with every key given (all four keys
\* are given by add_verified_fact, so the update replaces the record).
AddEdgeAttr(A, u, v, attrs) ==
    [e \in DOMAIN A \cup {<<u, v>>} |-> IF e = <<u, v>> THEN attrs ELSE A[e]]

Successors(E, u) == {e[2] : e \in {x \in Range(E) : x[1] = u}}

\* Number of nodes of a shortest directed path from a to b (1 when a = b),
\* 0 when b is not reachable: networkx.shortest_path(G, a, b), unweighted.
RECURSIVE PathNodes(_, _, _, _, _)
PathNodes(E, frontier, seen, b, k) ==
    IF b \in frontier THEN k
    ELSE LET next == UNION {Successors(E, u) : u \in frontier} \ seen
         IN  IF next = {} THEN 0
             ELSE PathNodes(E, next, seen \cup next, b, k + 1)

\* Faulty variant of the path length: edges are counted instead of nodes.
ShortestPathLenCountsEdges(E, a, b) == PathNodes(E, {a}, {a}, b, 0)

ShortestPathLen(E, a, b) == PathNodes(E, {a}, {a}, b, 1)

\* G.succ[v] and G.pred[v] in iteration order: the neighbours of v in the
\* order in which their edges were first inserted.
RECURSIVE SuccList(_, _)
SuccList(E, v) ==
    IF E = <<>> THEN <<>>
    ELSE IF Head(E)[1] = v THEN <<Head(E)[2]>> \o SuccList(Tail(E), v)
    ELSE SuccList(Tail(E), v)

RECURSIVE PredList(_, _)
PredList(E, v) ==
    IF E = <<>> THEN <<>>
    ELSE IF Head(E)[2] = v THEN <<Head(E)[1]>> \o PredList(Tail(E), v)
    ELSE PredList(Tail(E), v)

\* The pairs <<v, w>> visited by "for v in this_level: for w in G.succ[v]"
\* (forward) or "... for w in G.pred[v]" (reverse), in order.
RECURSIVE LevelPairs(_, _, _)
LevelPairs(E, level, forward) ==
    IF level = <<>> THEN <<>>
    ELSE LET v == Head(level)
             nbrs == IF forward THEN SuccList(E, v) ELSE PredList(E, v)
         IN  [i \in 1..Len(nbrs) |-> <<v, nbrs[i]>>]
                 \o LevelPairs(E, Tail(level), forward)

\* One level of the bidirectional search: mine is this side's parent map,
\* other the nodes reached from the opposite side; the search returns at
\* the first neighbour w that the opposite side has reached.
RECURSIVE ExpandLevel(_, _, _, _)
ExpandLevel(pairs, mine, other, fringe) ==
    IF pairs = <<>>
    THEN [found |-> FALSE, meet |-> "None", mine |-> mine, fringe |-> fringe]
    ELSE LET v == Head(pairs)[1]
             w == Head(pairs)[2]
             seen == w \in DOMAIN mine
             mine2 == IF seen THEN mine ELSE mine @@ (w :> v)
             fringe2 == IF seen THEN fringe ELSE Append(fringe, w)
         IN  IF w \in other
             THEN [found |-> TRUE, meet |-> w, mine |-> mine2,
                   fringe |-> fringe2]
             ELSE ExpandLevel(Tail(pairs), mine2, other, fringe2)

\* networkx _bidirectional_pred_succ: the smaller fringe is expanded, the
\* forward one on a tie; found = FALSE is NetworkXNoPath.
RECURSIVE BidirectionalPredSucc(_, _, _, _, _)
BidirectionalPredSucc(E, pred, succ, forward_fringe, reverse_fringe) ==
    IF forward_fringe = <<>> \/ reverse_fringe = <<>>
    THEN [found |-> FALSE, pred |-> pred, succ |-> succ, w |-> "None"]
    ELSE IF Len(forward_fringe) <= Len(reverse_fringe)
    THEN LET r == ExpandLevel(LevelPairs(E, forward_fringe, TRUE), pred,
                              DOMAIN succ, <<>>)
         IN  IF r.found
             THEN [found |-> TRUE, pred |-> r.mine, succ |-> succ, w |-> r.meet]
             ELSE BidirectionalPredSucc(E, r.mine, succ, r.fringe,
                                        reverse_fringe)
    ELSE LET r == ExpandLevel(LevelPairs(E, reverse_fringe, FALSE), succ,
                              DOMAIN pred, <<>>)
         IN  IF r.found
             THEN [found |-> TRUE, pred |-> pred, succ |-> r.mine, w |-> r.meet]
             ELSE BidirectionalPredSucc(E, pred, r.mine, forward_fringe,
                                        r.fringe)

\* The chain w, parent[w], parent[parent[w]], ... up to the root ("None").
RECURSIVE Chain(_, _)
Chain(parent, w) ==
    IF w = "None" THEN <<>> ELSE <<w>> \o Chain(parent, parent[w])

Reverse(s) == [i \in 1..Len(s) |-> s[Len(s) + 1 - i]]

\* networkx.shortest_path(G, a, b) without weight, a and b nodes of G:
\* bidirectional_shortest_path; <<>> stands for NetworkXNoPath.
ShortestPath(E, a, b) ==
    IF a = b THEN <<a>>
    ELSE LET r == BidirectionalPredSucc(E, (a :> "None"), (b :> "None"),
                                        <<a>>, <<b>>)
         IN  IF ~r.found THEN <<>>
             ELSE Reverse(Chain(r.pred, r.w)) \o Tail(Chain(r.succ, r.w))


---------------------------------------------------------------------------
(* CausalGraph operations *)

NoRelationship ==
    [exists |-> FALSE, relation_type |-> "None", confidence |-> 0,
     path_len |-> 0, direct |-> FALSE]

\* Faulty variant of query_relationship without the has_node guards: the
\* path search is reached with an id that is no node and raises
\* NodeNotFound, which the method does not catch.
QueryRelationshipUnguarded(N, E, A, a, b) ==
    IF ~HasNode(N, a) \/ ~HasNode(N, b)
    THEN [exists |-> FALSE, relation_type |-> "NodeNotFound", confidence |-> 0,
          path_len |-> 0, direct |-> FALSE]
    ELSE IF HasEdge(E, a, b)
         THEN [exists |-> TRUE, relation_type |-> A[<<a, b>>].relation,
               confidence |-> A[<<a, b>>].confidence,
               path_len |-> 2, direct |-> TRUE]
    ELSE LET n == ShortestPathLen(E, a, b)
         IN  IF n > 0 /\ n <= 4
             THEN [exists |-> TRUE, relation_type |-> "indirect",
                   confidence |-> (7 * Unit) \div (10 * n),
                   path_len |-> n, direct |-> FALSE]
             ELSE NoRelationship

\* Faulty variant of query_relationship: an edge is read in both directions.
QueryRelationshipUndirected(N, E, A, a, b) ==
    IF ~HasNode(N, a) \/ ~HasNode(N, b) THEN NoRelationship
    ELSE IF HasEdge(E, a, b) \/ HasEdge(E, b, a)
         THEN LET e == IF HasEdge(E, a, b) THEN <<a, b>> ELSE <<b, a>>
              IN  [exists |-> TRUE, relation_type |-> A[e].relation,
                   confidence |-> A[e].confidence, path_len |-> 2,
                   direct |-> TRUE]
    ELSE NoRelationship

\* CausalGraph.query_relationship(entity_a, entity_b) on the graph (N, E, A).
\* path_len is len(result['path']) (0 for path None).
QueryRelationship(N, E, A, a, b) ==
    IF ~HasNode(N, a) THEN NoRelationship
    ELSE IF ~HasNode(N, b) THEN NoRelationship
    ELSE IF HasEdge(E, a, b)
         THEN [exists |-> TRUE, relation_type |-> A[<<a, b>>].relation,
               confidence |-> A[<<a, b>>].confidence,
               path_len |-> 2, direct |-> TRUE]
    ELSE LET n == ShortestPathLen(E, a, b)
         IN  IF n > 0 /\ n <= 4
             THEN [exists |-> TRUE, relation_type |-> "indirect",
                   \* 0.7 / len(path): Unit is a multiple of 10, 30 and 40
                   confidence |-> (7 * Unit) \div (10 * n),
                   path_len |-> n, direct |-> FALSE]
             ELSE NoRelationship

\* CausalGraph.get_node_info(node_id): "semantic" / "self_model" when the
\* node's attribute dict is returned, "None" otherwise.
GetNodeInfo(N, n) ==
    IF HasNode(N, n) THEN "semantic"
    ELSE IF n \in SelfModelNodes THEN "self_model"
    ELSE "None"

\* result['path'] of query_relationship(a, b); <<>> is None.
QueryPath(N, E, a, b) ==
    IF ~HasNode(N, a) \/ ~HasNode(N, b) THEN <<>>
    ELSE IF HasEdge(E, a, b) THEN <<a, b>>
    ELSE LET path == ShortestPath(E, a, b)
         IN  IF Len(path) > 0 /\ Len(path) <= 4 THEN path ELSE <<>>

\* Inputs of add_verified_fact: every ordered pair of three entities (a
\* seed edge, its reverse, self-loops and a new entity among them), with
\* attribute triples that cover every pair of values of any two attributes.
\* 0.9 is the default confidence; 1.5 is outside [0,1]; source "None" is
\* the default source=None.
FactEnts == {"Marc_Hesse_FineArt", "Hahnemuehle", "NewCo"}

FactAttrs ==
    {[relation |-> "partnership",  confidence |-> (9 * Unit) \div 10, source |-> "None"],
     [relation |-> "manufactures", confidence |-> (9 * Unit) \div 10, source |-> "wikidata"],
     [relation |-> "partnership",  confidence |-> (3 * Unit) \div 2,  source |-> "wikidata"],
     [relation |-> "manufactures", confidence |-> (3 * Unit) \div 2,  source |-> "None"]}

FactArgs ==
    {[a |-> x, b |-> y, relation |-> t.relation, confidence |-> t.confidence,
      source |-> t.source] : x \in FactEnts, y \in FactEnts, t \in FactAttrs}

PlaceholderAttr == [node_type |-> "unknown", verified |-> "False"]

\* CausalGraph.add_verified_fact(entity_a, entity_b, relation, confidence,
\* source), called at second t of the clock.
AddVerifiedFactAt(f, t) ==
    LET N1 == IF ~HasNode(semNodes, f.a) THEN AddNodeSeq(semNodes, f.a)
              ELSE semNodes
        N2 == IF ~HasNode(N1, f.b) THEN AddNodeSeq(N1, f.b) ELSE N1
        attrs == [relation |-> f.relation, confidence |-> f.confidence,
                  source |-> f.source, added_at |-> t]
        event == [node_type |-> "learning",
                  fact |-> <<f.a, f.relation, f.b>>,
                  confidence |-> f.confidence, timestamp |-> t]
    IN  /\ semNodes' = N2
        /\ nodeAttr' = [n \in Range(N2) |->
                           IF n \in DOMAIN nodeAttr THEN nodeAttr[n]
                           ELSE PlaceholderAttr]
        /\ semEdges' = AddEdgeSeq(semEdges, f.a, f.b)
        /\ edgeAttr' = AddEdgeAttr(edgeAttr, f.a, f.b, attrs)
        /\ last_update' = t
        \* the learning event is keyed by the clock's second
        /\ epiNodes' = AddNodeSeq(epiNodes, t)
        /\ epiAttr' = [k \in DOMAIN epiAttr \cup {t} |->
                          IF k = t THEN event ELSE epiAttr[k]]
        /\ now' = t
        /\ factLog' = Append(factLog,
                        [args |-> f, at |-> t,
                         nodes_before |-> NumberOfNodes(semNodes),
                         edges_before |-> NumberOfEdges(semEdges),
                         events_before |-> NumberOfNodes(epiNodes),
                         nodes_after |-> NumberOfNodes(semNodes'),
                         edges_after |-> NumberOfEdges(semEdges'),
                         events_after |-> NumberOfNodes(epiNodes')])
        /\ lastOp' = "add_verified_fact"
        /\ UNCHANGED <<auxVars, detectorVars, policyVars, lastResult, lastDecision,
                       decideCalls, lastQuery, calcCalls>>

AddVerifiedFact ==
    /\ Len(factLog) < MaxFacts
    /\ \E f \in FactArgs : \E t \in {now, now + 1} :
          /\ t <= MaxClock
          /\ AddVerifiedFactAt(f, t)

\* Edges of the path scenarios.  With the seed edges
\* Marc_Hesse_FineArt -> Hahnemuehle -> Hahnemuehle_Bamboo and
\* Marc_Hesse_FineArt -> Canson, two of them can close a cycle, reverse a
\* seed edge, open a second equally short path, build a chain of five
\* nodes or add a self-loop.
PathPairs ==
    {<<"Hahnemuehle", "NewCo">>, <<"NewCo", "Marc_Hesse_FineArt">>,
     <<"Canson", "NewCo">>, <<"NewCo", "Canson">>,
     <<"Canson", "Marc_Hesse_FineArt">>,
     <<"Hahnemuehle", "Marc_Hesse_FineArt">>, <<"NewCo", "NewCo">>}

PathFacts ==
    {[a |-> p[1], b |-> p[2], relation |-> "partnership",
      confidence |-> (9 * Unit) \div 10, source |-> "None"] : p \in PathPairs}

\* add_verified_fact on the path entities, within the current second.
AddPathFact ==
    /\ Len(factLog) < MaxFacts
    /\ \E f \in PathFacts : AddVerifiedFactAt(f, now)

\* Ids asked of the graph: endpoints of the path scenarios, a seed paper
\* and an id that is never a node; for get_node_info also a node of the
\* self-model graph.
QueryEnts ==
    {"Marc_Hesse_FineArt", "Hahnemuehle", "NewCo", "Hahnemuehle_Bamboo",
     "Nobody"}

InfoEnts == {"Hahnemuehle", "NewCo", "Nobody", "System_Identity"}

NoQuery ==
    [op |-> "none", a |-> "None", b |-> "None", result |-> NoRelationship,
     path |-> <<>>, info |-> "None"]

\* A caller runs query_relationship(a, b); the graph is only read.
CallQueryRelationship ==
    /\ \E a \in QueryEnts : \E b \in QueryEnts :
          lastQuery' =
              [op |-> "query_relationship", a |-> a, b |-> b,
               result |-> QueryRelationship(semNodes, semEdges, edgeAttr, a, b),
               path |-> QueryPath(semNodes, semEdges, a, b),
               info |-> "None"]
    /\ lastOp' = "query_relationship"
    /\ UNCHANGED <<auxVars, graphVars, detectorVars, policyVars, factLog, lastResult,
                   lastDecision, decideCalls, calcCalls>>

\* Faulty variant of get_node_info: the lookup creates the node it does not
\* find, as a defaulting container would.
CallGetNodeInfoCreatesNode ==
    /\ \E n \in InfoEnts :
          /\ lastQuery' =
                [op |-> "get_node_info", a |-> n, b |-> "None",
                 result |-> NoRelationship, path |-> <<>>,
                 info |-> GetNodeInfo(semNodes, n)]
          /\ semNodes' = AddNodeSeq(semNodes, n)
          /\ nodeAttr' = [m \in Range(AddNodeSeq(semNodes, n)) |->
                             IF m \in DOMAIN nodeAttr THEN nodeAttr[m]
                             ELSE PlaceholderAttr]
    /\ lastOp' = "get_node_info"
    /\ UNCHANGED <<auxVars, semEdges, edgeAttr, epiNodes, epiAttr, last_update, now,
                   detectorVars, policyVars, factLog, lastResult, lastDecision,
                   decideCalls, calcCalls>>

\* A caller runs get_node_info(node_id); the graph is only read.
CallGetNodeInfo ==
    /\ \E n \in InfoEnts :
          lastQuery' =
              [op |-> "get_node_info", a |-> n, b |-> "None",
               result |-> NoRelationship, path |-> <<>>,
               info |-> GetNodeInfo(semNodes, n)]
    /\ lastOp' = "get_node_info"
    /\ UNCHANGED <<auxVars, graphVars, detectorVars, policyVars, factLog, lastResult,
                   lastDecision, decideCalls, calcCalls>>


---------------------------------------------------------------------------
(* DissonanceDetector *)

\* Thresholds and weights of the detector, as score * 100 * Unit and as
\* hundredths.
D_THRESHOLD_UNCERTAINTY == 18000
D_THRESHOLD_REFRAME     == 39000
D_THRESHOLD_ABORT       == 54000
WEIGHT_SEMANTIC   == 85
WEIGHT_EPISTEMIC  == 10
WEIGHT_SELF_MODEL == 5

\* A proposed_claim: present = FALSE is None (or an empty dict); a field
\* "None" is a missing or falsy entry.
NoClaim ==
    [present |-> FALSE, entity_a |-> "None", entity_b |-> "None",
     relation |-> "None"]

\* Claims handed to the scorer.  The entity pairs: a direct seed edge, the
\* same pair reversed, an indirect connection, two known unconnected
\* entities, the same entity twice, a seed edge that ingestion overwrites,
\* an unknown entity, two unknown entities, a node of the self-model graph,
\* and a claim with either entity missing.
ClaimPairs ==
    {<<"Hahnemuehle", "Hahnemuehle_Bamboo">>,
     <<"Hahnemuehle_Bamboo", "Hahnemuehle">>,
     <<"Marc_Hesse_FineArt", "Hahnemuehle_Bamboo">>,
     <<"Hahnemuehle", "Awagami">>,
     <<"Hahnemuehle", "Hahnemuehle">>,
     <<"Marc_Hesse_FineArt", "Hahnemuehle">>,
     <<"Hahnemuehle", "NewCo">>,
     <<"NewCo", "Nobody">>,
     <<"System_Identity", "Hahnemuehle">>,
     <<"Hahnemuehle", "None">>,
     <<"None", "Hahnemuehle">>}
ClaimRelations == {"None", "manufactures"}

Claims ==
    {NoClaim} \cup
    {[present |-> TRUE, entity_a |-> p[1], entity_b |-> p[2], relation |-> r] :
        p \in ClaimPairs, r \in ClaimRelations}

\* The lower-cased text ' '.join(context + [token]) is represented by what
\* the two scans read from it: whether any time keyword occurs in it, and
\* which of the four self-contradiction phrases (by list position) occur.
PhraseSets == {{}, {4}, {1, 4}, {2, 3}}
Texts == [time : BOOLEAN, phrases : PhraseSets]

\* self_contradictions: the severity bound to each phrase, in list order.
Severity == <<(6 * Unit) \div 10, (8 * Unit) \div 10, (7 * Unit) \div 10,
              (9 * Unit) \div 10>>

\* Faulty variant of the semantic axis: the confidence of a matching
\* relationship is returned instead of its complement.
SemanticDissonanceReturnsConfidence(N, E, A, claim) ==
    IF ~claim.present THEN 0
    ELSE IF ~(claim.entity_a # "None" /\ claim.entity_b # "None") THEN 0
    ELSE LET relationship ==
                 QueryRelationship(N, E, A, claim.entity_a, claim.entity_b)
         IN  IF ~relationship.exists THEN (95 * Unit) \div 100
             ELSE IF claim.relation # "None"
                     /\ relationship.relation_type # claim.relation
                  THEN (70 * Unit) \div 100
             ELSE relationship.confidence

\* DissonanceDetector._calculate_semantic_dissonance
SemanticDissonance(N, E, A, claim) ==
    IF ~claim.present THEN 0
    ELSE IF ~(claim.entity_a # "None" /\ claim.entity_b # "None") THEN 0
    ELSE LET relationship ==
                 QueryRelationship(N, E, A, claim.entity_a, claim.entity_b)
         IN  IF ~relationship.exists THEN (95 * Unit) \div 100
             ELSE IF claim.relation # "None"
                     /\ relationship.relation_type # claim.relation
                  THEN (70 * Unit) \div 100
             ELSE Unit - relationship.confidence

\* Faulty variant of the epistemic axis: the temporal marker is added to the
\* penalties of the unknown entities instead of being returned at once.
EpistemicDissonanceAddsMarker(N, text, claim) ==
    LET marker == IF text.time THEN (75 * Unit) \div 100 ELSE 0
        pa == IF claim.present /\ claim.entity_a # "None"
                 /\ GetNodeInfo(N, claim.entity_a) = "None"
              THEN (4 * Unit) \div 10 ELSE 0
        pb == IF claim.present /\ claim.entity_b # "None"
                 /\ GetNodeInfo(N, claim.entity_b) = "None"
              THEN (4 * Unit) \div 10 ELSE 0
    IN  marker + pa + pb

\* DissonanceDetector._calculate_epistemic_dissonance
EpistemicDissonance(N, text, claim) ==
    IF text.time THEN (75 * Unit) \div 100
    ELSE IF claim.present
         THEN LET pa == IF claim.entity_a # "None"
                           /\ GetNodeInfo(N, claim.entity_a) = "None"
                        THEN (4 * Unit) \div 10 ELSE 0
                  pb == IF claim.entity_b # "None"
                           /\ GetNodeInfo(N, claim.entity_b) = "None"
                        THEN (4 * Unit) \div 10 ELSE 0
              IN  Min(pa + pb, (9 * Unit) \div 10)
    ELSE 0

\* Faulty variant of the self-model axis: the largest severity among the
\* phrases that occur is returned.
SelfModelDissonanceTakesMaximum(text) ==
    IF text.phrases = {} THEN 0
    ELSE LET sev == {Severity[i] : i \in text.phrases}
         IN  CHOOSE m \in sev : \A x \in sev : x <= m

\* DissonanceDetector._calculate_self_model_dissonance: the first phrase of
\* the list that occurs decides.
SelfModelDissonance(text) ==
    IF text.phrases = {} THEN 0
    ELSE Severity[CHOOSE i \in text.phrases : \A j \in text.phrases : i <= j]

\* Faulty variant of the weighted sum: the semantic and the epistemic
\* weight are exchanged.
TotalScoreSwapsWeights(sem, epi, self) ==
    WEIGHT_EPISTEMIC * sem + WEIGHT_SEMANTIC * epi + WEIGHT_SELF_MODEL * self

TotalScore(sem, epi, self) ==
    WEIGHT_SEMANTIC * sem + WEIGHT_EPISTEMIC * epi + WEIGHT_SELF_MODEL * self

\* A faulty variant of Classify that inhibits from the uncertainty level on.
ClassifyInhibitsOnUncertainty(score) ==
    IF score >= D_THRESHOLD_ABORT
    THEN [should_inhibit |-> TRUE, inhibition_level |-> "abort"]
    ELSE IF score >= D_THRESHOLD_REFRAME
    THEN [should_inhibit |-> TRUE, inhibition_level |-> "reframe"]
    ELSE IF score >= D_THRESHOLD_UNCERTAINTY
    THEN [should_inhibit |-> TRUE, inhibition_level |-> "uncertainty"]
    ELSE [should_inhibit |-> FALSE, inhibition_level |-> "none"]

\* calculate_dissonance, the if / elif chain over total_score.
Classify(score) ==
    IF score >= D_THRESHOLD_ABORT
    THEN [should_inhibit |-> TRUE, inhibition_level |-> "abort"]
    ELSE IF score >= D_THRESHOLD_REFRAME
    THEN [should_inhibit |-> TRUE, inhibition_level |-> "reframe"]
    ELSE IF score >= D_THRESHOLD_UNCERTAINTY
    THEN [should_inhibit |-> FALSE, inhibition_level |-> "uncertainty"]
    ELSE [should_inhibit |-> FALSE, inhibition_level |-> "none"]

\* The DissonanceResult of calculate_dissonance (token, token_index,
\* explanation and timestamp are carried through unread and left out).
DissonanceResult(N, E, A, text, claim) ==
    LET d_semantic   == SemanticDissonance(N, E, A, claim)
        d_epistemic  == EpistemicDissonance(N, text, claim)
        d_self_model == SelfModelDissonance(text)
        total_score  == TotalScore(d_semantic, d_epistemic, d_self_model)
        c            == Classify(total_score)
    IN  [score |-> total_score, semantic |-> d_semantic,
         epistemic |-> d_epistemic, self_model |-> d_self_model,
         should_inhibit |-> c.should_inhibit,
         inhibition_level |-> c.inhibition_level]

NoResult ==
    [score |-> 0, semantic |-> 0, epistemic |-> 0, self_model |-> 0,
     should_inhibit |-> FALSE, inhibition_level |-> "none"]

\* DissonanceDetector.calculate_dissonance(token, token_index, context,
\* proposed_claim) on the given text and claim.
CalculateDissonanceOn(text, claim) ==
    LET result == DissonanceResult(semNodes, semEdges, edgeAttr, text, claim)
    IN  /\ detection_history' = Append(detection_history, result)
        /\ total_detections' = total_detections + 1
        /\ inhibitions_triggered' =
              IF result.should_inhibit THEN inhibitions_triggered + 1
              ELSE inhibitions_triggered
        /\ lastResult' = [called |-> TRUE, text |-> text, claim |-> claim,
                          result |-> result]
        /\ calcCalls' = calcCalls + 1
        /\ lastOp' = "calculate_dissonance"
        /\ UNCHANGED <<auxVars, graphVars, policyVars, factLog, lastDecision,
                       decideCalls, lastQuery>>

CalculateDissonance ==
    /\ total_detections < MaxDetect
    /\ \E text \in Texts : \E claim \in Claims :
          CalculateDissonanceOn(text, claim)

\* A text without time keyword and without self-contradiction phrase.
PlainText == [time |-> FALSE, phrases |-> {}]

\* calculate_dissonance for a claim in plain text.
CalculatePlainClaim ==
    /\ total_detections < MaxDetect
    /\ \E claim \in Claims : CalculateDissonanceOn(PlainText, claim)

\* Facts learned between scorings: the relabelled seed edge
\* Marc_Hesse_FineArt -> Hahnemuehle at default confidence, an edge to a
\* new entity, and an edge whose confidence is outside [0,1].
ScorerFacts ==
    {[a |-> "Marc_Hesse_FineArt", b |-> "Hahnemuehle",
      relation |-> "manufactures", confidence |-> (9 * Unit) \div 10,
      source |-> "None"],
     [a |-> "Hahnemuehle", b |-> "NewCo",
      relation |-> "partnership", confidence |-> (9 * Unit) \div 10,
      source |-> "wikidata"],
     [a |-> "Hahnemuehle", b |-> "Awagami",
      relation |-> "manufactures", confidence |-> (3 * Unit) \div 2,
      source |-> "None"]}

\* add_verified_fact of one of these facts, within the current second.
AddScorerFact ==
    /\ Len(factLog) < MaxFacts
    /\ \E f \in ScorerFacts : AddVerifiedFactAt(f, now)

NoSearch == [called |-> FALSE, query |-> "", limit |-> 0, results |-> <<>>]

\* Threads that call into the same scorer or the same graph.
ThreadIds == 1..MaxThreads

NoFact ==
    [a |-> "None", b |-> "None", relation |-> "None", confidence |-> 0,
     source |-> "None"]

\* A thread outside any call.  reg is the value a thread has read for an
\* augmented assignment (x += 1 reads x, adds, then writes x); inhibit is
\* the should_inhibit of the result it computed; fact and created are the
\* arguments of its add_verified_fact call and the endpoints it created.
IdleThread ==
    [pc |-> "idle", reg |-> 0, inhibit |-> FALSE, fact |-> NoFact,
     created |-> {}]

\* calculate_dissonance in thread t, up to self.detection_history.append:
\* the result is computed from the graph and appended (list.append is one
\* step).
CalcAppend(t) ==
    /\ threads[t].pc = "idle"
    /\ calcCalls < MaxDetect
    /\ \E claim \in Claims :
          LET result == DissonanceResult(semNodes, semEdges, edgeAttr,
                                         PlainText, claim)
          IN  /\ detection_history' = Append(detection_history, result)
              /\ lastResult' = [called |-> TRUE, text |-> PlainText,
                                claim |-> claim, result |-> result]
              /\ threads' = [threads EXCEPT
                               ![t].pc = "load_total",
                               ![t].inhibit = result.should_inhibit]
    /\ calcCalls' = calcCalls + 1
    /\ lastOp' = "calculate_dissonance"
    /\ UNCHANGED <<lastSearch, crawl, request, graphVars, policyVars, total_detections,
                   inhibitions_triggered, factLog, lastDecision, decideCalls,
                   lastQuery>>

\* self.total_detections += 1, first half: the attribute is read.
CalcLoadTotal(t) ==
    /\ threads[t].pc = "load_total"
    /\ threads' = [threads EXCEPT ![t].pc = "store_total",
                                  ![t].reg = total_detections]
    /\ UNCHANGED <<lastSearch, crawl, request, graphVars, detectorVars, policyVars, factLog, lastResult,
                   lastDecision, lastOp, decideCalls, lastQuery, calcCalls>>

\* self.total_detections += 1, second half: the sum is written back; then
\* "if should_inhibit:" is decided.
CalcStoreTotal(t) ==
    /\ threads[t].pc = "store_total"
    /\ total_detections' = threads[t].reg + 1
    /\ threads' = [threads EXCEPT
                     ![t].pc = IF threads[t].inhibit THEN "load_inhibitions"
                               ELSE "idle",
                     ![t].reg = 0]
    /\ UNCHANGED <<lastSearch, crawl, request, graphVars, policyVars, detection_history,
                   inhibitions_triggered, factLog, lastResult, lastDecision,
                   lastOp, decideCalls, lastQuery, calcCalls>>

\* self.inhibitions_triggered += 1, first half.
CalcLoadInhibitions(t) ==
    /\ threads[t].pc = "load_inhibitions"
    /\ threads' = [threads EXCEPT ![t].pc = "store_inhibitions",
                                  ![t].reg = inhibitions_triggered]
    /\ UNCHANGED <<lastSearch, crawl, request, graphVars, detectorVars, policyVars, factLog, lastResult,
                   lastDecision, lastOp, decideCalls, lastQuery, calcCalls>>

\* self.inhibitions_triggered += 1, second half, and return.
CalcStoreInhibitions(t) ==
    /\ threads[t].pc = "store_inhibitions"
    /\ inhibitions_triggered' = threads[t].reg + 1
    /\ threads' = [threads EXCEPT ![t] = IdleThread]
    /\ UNCHANGED <<lastSearch, crawl, request, graphVars, policyVars, detection_history, total_detections,
                   factLog, lastResult, lastDecision, lastOp, decideCalls,
                   lastQuery, calcCalls>>

\* add_verified_fact(f) in thread t, first part: the two "if not has_node:
\* add_node" statements.  The endpoints created are remembered.
IngestNodes(t) ==
    /\ threads[t].pc = "idle"
    /\ Len(factLog) + Cardinality({u \in ThreadIds : threads[u].pc = "add_edge"})
          < MaxFacts
    /\ \E f \in PathFacts :
          LET N1 == IF ~HasNode(semNodes, f.a) THEN AddNodeSeq(semNodes, f.a)
                    ELSE semNodes
              N2 == IF ~HasNode(N1, f.b) THEN AddNodeSeq(N1, f.b) ELSE N1
          IN  /\ semNodes' = N2
              /\ nodeAttr' = [n \in Range(N2) |->
                                 IF n \in DOMAIN nodeAttr THEN nodeAttr[n]
                                 ELSE PlaceholderAttr]
              /\ threads' = [threads EXCEPT
                               ![t].pc = "add_edge",
                               ![t].fact = f,
                               ![t].created = Range(N2) \ Range(semNodes)]
    /\ lastOp' = "add_verified_fact_nodes"
    /\ UNCHANGED <<lastSearch, crawl, request, semEdges, edgeAttr, epiNodes, epiAttr, last_update, now,
                   detectorVars, policyVars, factLog, lastResult, lastDecision,
                   decideCalls, lastQuery, calcCalls>>

\* add_verified_fact(f) in thread t, second part: add_edge, last_update and
\* the learning event, within the current second.
IngestEdge(t) ==
    LET f == threads[t].fact
        attrs == [relation |-> f.relation, confidence |-> f.confidence,
                  source |-> f.source, added_at |-> now]
        event == [node_type |-> "learning",
                  fact |-> <<f.a, f.relation, f.b>>,
                  confidence |-> f.confidence, timestamp |-> now]
    IN  /\ threads[t].pc = "add_edge"
        /\ semEdges' = AddEdgeSeq(semEdges, f.a, f.b)
        /\ edgeAttr' = AddEdgeAttr(edgeAttr, f.a, f.b, attrs)
        /\ last_update' = now
        /\ epiNodes' = AddNodeSeq(epiNodes, now)
        /\ epiAttr' = [k \in DOMAIN epiAttr \cup {now} |->
                          IF k = now THEN event ELSE epiAttr[k]]
        /\ factLog' = Append(factLog,
                        [args |-> f, at |-> now,
                         nodes_before |-> NumberOfNodes(semNodes)
                                          - Cardinality(threads[t].created),
                         edges_before |-> NumberOfEdges(semEdges),
                         events_before |-> NumberOfNodes(epiNodes),
                         nodes_after |-> NumberOfNodes(semNodes),
                         edges_after |-> NumberOfEdges(semEdges'),
                         events_after |-> NumberOfNodes(epiNodes')])
        /\ threads' = [threads EXCEPT ![t] = IdleThread]
        /\ lastOp' = "add_verified_fact"
        /\ UNCHANGED <<lastSearch, crawl, request, semNodes, nodeAttr, now, detectorVars, policyVars,
                       lastResult, lastDecision, decideCalls, lastQuery,
                       calcCalls>>

\* Faulty variant of reset_session: the history is cleared, the counters
\* are kept.
ResetSessionKeepsCounters ==
    /\ detection_history' = <<>>
    /\ calcCalls' = 0
    /\ lastOp' = "reset_session"
    /\ UNCHANGED <<auxVars, graphVars, policyVars, factLog, lastResult, lastDecision,
                   decideCalls, lastQuery, total_detections,
                   inhibitions_triggered>>

\* DissonanceDetector.reset_session()
ResetSession ==
    /\ detection_history' = <<>>
    /\ total_detections' = 0
    /\ inhibitions_triggered' = 0
    /\ calcCalls' = 0
    /\ lastOp' = "reset_session"
    /\ UNCHANGED <<auxVars, graphVars, policyVars, factLog, lastResult, lastDecision,
                   decideCalls, lastQuery>>


---------------------------------------------------------------------------
(* InhibitionController *)

\* Thresholds of the controller, as score * 100 * Unit.
C_THRESHOLD_UNCERTAINTY == 18000
C_THRESHOLD_REFRAME     == 39000
C_THRESHOLD_ABORT       == 54000

\* Keys of InhibitionController.inhibitions_by_type.
InhibitionKeys == {"continue", "uncertainty", "reframe", "abort"}

\* Dissonance scores handed to decide_action: each threshold and the value
\* just below it.
Scores ==
    {C_THRESHOLD_UNCERTAINTY - 1, C_THRESHOLD_UNCERTAINTY,
     C_THRESHOLD_REFRAME - 1, C_THRESHOLD_REFRAME,
     C_THRESHOLD_ABORT - 1, C_THRESHOLD_ABORT}

TokenCounts == 0..MaxTokens

\* A faulty variant of SelectAction that reframes from the uncertainty
\* threshold on.
SelectActionLowReframe(score, remaining_tokens) ==
    IF score >= C_THRESHOLD_ABORT
    THEN [action |-> "abort", alternative |-> "abort_response",
          tokens_saved |-> remaining_tokens]
    ELSE IF score >= C_THRESHOLD_UNCERTAINTY
    THEN [action |-> "reframe", alternative |-> "reframe_response",
          tokens_saved |-> remaining_tokens]
    ELSE [action |-> "continue", alternative |-> "None", tokens_saved |-> 0]

\* decide_action, the if / elif chain over dissonance_score.  The
\* alternative is the kind of text built ("None" for no text); the qualifier
\* is one of five phrases picked by random.choice.
SelectAction(score, remaining_tokens) ==
    IF score >= C_THRESHOLD_ABORT
    THEN [action |-> "abort", alternative |-> "abort_response",
          tokens_saved |-> remaining_tokens]
    ELSE IF score >= C_THRESHOLD_REFRAME
    THEN [action |-> "reframe", alternative |-> "reframe_response",
          tokens_saved |-> remaining_tokens]
    ELSE IF score >= C_THRESHOLD_UNCERTAINTY
    THEN [action |-> "add_uncertainty", alternative |-> "qualifier",
          tokens_saved |-> 0]
    ELSE [action |-> "continue", alternative |-> "None", tokens_saved |-> 0]

NoDecision ==
    [called |-> FALSE, raised |-> FALSE, dissonance_score |-> 0,
     token_index |-> 0, total_tokens_planned |-> 0, action |-> "None",
     alternative |-> "None", tokens_saved |-> 0,
     energy_num |-> 0, energy_den |-> 1]

\* InhibitionController.decide_action(dissonance_score, token, token_index,
\* total_tokens_planned, context, proposed_claim).  The statistics update
\* indexes inhibitions_by_type by the action: an action that is no key of it
\* raises KeyError after total_decisions was incremented, and the call
\* returns nothing.  energy_saved_percent is the rational
\* energy_num / energy_den.
DecideActionWith(dissonance_score, token_index, total_tokens_planned) ==
    LET remaining_tokens == total_tokens_planned - token_index
        sel == SelectAction(dissonance_score, remaining_tokens)
        raises == sel.action \notin DOMAIN inhibitions_by_type
    IN  /\ total_decisions' = total_decisions + 1
        /\ IF raises
           THEN UNCHANGED <<inhibitions_by_type, total_tokens_saved,
                            decision_history>>
           ELSE /\ inhibitions_by_type' =
                      [inhibitions_by_type EXCEPT ![sel.action] = @ + 1]
                /\ total_tokens_saved' = total_tokens_saved + sel.tokens_saved
                /\ decision_history' =
                      Append(decision_history,
                             [dissonance |-> dissonance_score,
                              action |-> sel.action,
                              tokens_saved |-> sel.tokens_saved])
        /\ lastDecision' =
              [called |-> TRUE, raised |-> raises,
               dissonance_score |-> dissonance_score,
               token_index |-> token_index,
               total_tokens_planned |-> total_tokens_planned,
               action |-> sel.action, alternative |-> sel.alternative,
               tokens_saved |-> sel.tokens_saved,
               energy_num |-> sel.tokens_saved * 100,
               energy_den |-> Max(total_tokens_planned, 1)]

DecideAction ==
    /\ total_decisions < MaxDecisions
    /\ \E s \in Scores : \E i \in TokenCounts : \E n \in TokenCounts :
          DecideActionWith(s, i, n)
    /\ decideCalls' = decideCalls + 1
    /\ lastOp' = "decide_action"
    /\ UNCHANGED <<auxVars, graphVars, detectorVars, factLog, lastResult, lastQuery,
                   calcCalls>>

---------------------------------------------------------------------------
(* CausalGraph.search_nodes *)

\* The characters of the strings the search reads: node ids, string-valued
\* node attributes and queries.
Chars(s) ==
    CASE s = "Hahnemuehle" -> <<"H", "a", "h", "n", "e", "m", "u", "e",
            "h", "l", "e">>
      [] s = "company" -> <<"c", "o", "m", "p", "a", "n", "y">>
      [] s = "Germany" -> <<"G", "e", "r", "m", "a", "n", "y">>
      [] s = "Dassel" -> <<"D", "a", "s", "s", "e", "l">>
      [] s = "fine_art_paper" -> <<"f", "i", "n", "e", "_", "a", "r", "t",
            "_", "p", "a", "p", "e", "r">>
      [] s = "Hahnemuehle_FineArt_Baryta" -> <<"H", "a", "h", "n", "e",
            "m", "u", "e", "h", "l", "e", "_", "F", "i", "n", "e", "A",
            "r", "t", "_", "B", "a", "r", "y", "t", "a">>
      [] s = "paper" -> <<"p", "a", "p", "e", "r">>
      [] s = "FineArt Baryta" -> <<"F", "i", "n", "e", "A", "r", "t", " ",
            "B", "a", "r", "y", "t", "a">>
      [] s = "325gsm" -> <<"3", "2", "5", "g", "s", "m">>
      [] s = "glossy" -> <<"g", "l", "o", "s", "s", "y">>
      [] s = "alpha_cellulose" -> <<"a", "l", "p", "h", "a", "_", "c", "e",
            "l", "l", "u", "l", "o", "s", "e">>
      [] s = "Hahnemuehle_Photo_Rag" -> <<"H", "a", "h", "n", "e", "m",
            "u", "e", "h", "l", "e", "_", "P", "h", "o", "t", "o", "_",
            "R", "a", "g">>
      [] s = "Photo Rag" -> <<"P", "h", "o", "t", "o", " ", "R", "a",
            "g">>
      [] s = "308gsm" -> <<"3", "0", "8", "g", "s", "m">>
      [] s = "matte" -> <<"m", "a", "t", "t", "e">>
      [] s = "cotton" -> <<"c", "o", "t", "t", "o", "n">>
      [] s = "Hahnemuehle_Bamboo" -> <<"H", "a", "h", "n", "e", "m", "u",
            "e", "h", "l", "e", "_", "B", "a", "m", "b", "o", "o">>
      [] s = "Bamboo" -> <<"B", "a", "m", "b", "o", "o">>
      [] s = "290gsm" -> <<"2", "9", "0", "g", "s", "m">>
      [] s = "natural_white" -> <<"n", "a", "t", "u", "r", "a", "l", "_",
            "w", "h", "i", "t", "e">>
      [] s = "bamboo_90_cotton_10" -> <<"b", "a", "m", "b", "o", "o", "_",
            "9", "0", "_", "c", "o", "t", "t", "o", "n", "_", "1", "0">>
      [] s = "Hahnemuehle_German_Etching" -> <<"H", "a", "h", "n", "e",
            "m", "u", "e", "h", "l", "e", "_", "G", "e", "r", "m", "a",
            "n", "_", "E", "t", "c", "h", "i", "n", "g">>
      [] s = "German Etching" -> <<"G", "e", "r", "m", "a", "n", " ", "E",
            "t", "c", "h", "i", "n", "g">>
      [] s = "310gsm" -> <<"3", "1", "0", "g", "s", "m">>
      [] s = "textured" -> <<"t", "e", "x", "t", "u", "r", "e", "d">>
      [] s = "Hahnemuehle_Museum_Etching" -> <<"H", "a", "h", "n", "e",
            "m", "u", "e", "h", "l", "e", "_", "M", "u", "s", "e", "u",
            "m", "_", "E", "t", "c", "h", "i", "n", "g">>
      [] s = "Museum Etching" -> <<"M", "u", "s", "e", "u", "m", " ", "E",
            "t", "c", "h", "i", "n", "g">>
      [] s = "350gsm" -> <<"3", "5", "0", "g", "s", "m">>
      [] s = "Canson" -> <<"C", "a", "n", "s", "o", "n">>
      [] s = "France" -> <<"F", "r", "a", "n", "c", "e">>
      [] s = "Canson_Infinity_Baryta" -> <<"C", "a", "n", "s", "o", "n",
            "_", "I", "n", "f", "i", "n", "i", "t", "y", "_", "B", "a",
            "r", "y", "t", "a">>
      [] s = "Infinity Baryta" -> <<"I", "n", "f", "i", "n", "i", "t", "y",
            " ", "B", "a", "r", "y", "t", "a">>
      [] s = "315gsm" -> <<"3", "1", "5", "g", "s", "m">>
      [] s = "Canson_Platine_Fibre_Rag" -> <<"C", "a", "n", "s", "o", "n",
            "_", "P", "l", "a", "t", "i", "n", "e", "_", "F", "i", "b",
            "r", "e", "_", "R", "a", "g">>
      [] s = "Platine Fibre Rag" -> <<"P", "l", "a", "t", "i", "n", "e",
            " ", "F", "i", "b", "r", "e", " ", "R", "a", "g">>
      [] s = "satin" -> <<"s", "a", "t", "i", "n">>
      [] s = "Canson_Rag_Photographique" -> <<"C", "a", "n", "s", "o", "n",
            "_", "R", "a", "g", "_", "P", "h", "o", "t", "o", "g", "r",
            "a", "p", "h", "i", "q", "u", "e">>
      [] s = "Rag Photographique" -> <<"R", "a", "g", " ", "P", "h", "o",
            "t", "o", "g", "r", "a", "p", "h", "i", "q", "u", "e">>
      [] s = "210gsm" -> <<"2", "1", "0", "g", "s", "m">>
      [] s = "Awagami" -> <<"A", "w", "a", "g", "a", "m", "i">>
      [] s = "Japan" -> <<"J", "a", "p", "a", "n">>
      [] s = "Tokushima" -> <<"T", "o", "k", "u", "s", "h", "i", "m",
            "a">>
      [] s = "washi" -> <<"w", "a", "s", "h", "i">>
      [] s = "Awagami_Kozo" -> <<"A", "w", "a", "g", "a", "m", "i", "_",
            "K", "o", "z", "o">>
      [] s = "Kozo" -> <<"K", "o", "z", "o">>
      [] s = "110gsm" -> <<"1", "1", "0", "g", "s", "m">>
      [] s = "natural" -> <<"n", "a", "t", "u", "r", "a", "l">>
      [] s = "mulberry" -> <<"m", "u", "l", "b", "e", "r", "r", "y">>
      [] s = "Awagami_Bamboo" -> <<"A", "w", "a", "g", "a", "m", "i", "_",
            "B", "a", "m", "b", "o", "o">>
      [] s = "170gsm" -> <<"1", "7", "0", "g", "s", "m">>
      [] s = "bamboo" -> <<"b", "a", "m", "b", "o", "o">>
      [] s = "Awagami_Unryu" -> <<"A", "w", "a", "g", "a", "m", "i", "_",
            "U", "n", "r", "y", "u">>
      [] s = "Unryu" -> <<"U", "n", "r", "y", "u">>
      [] s = "37gsm" -> <<"3", "7", "g", "s", "m">>
      [] s = "translucent" -> <<"t", "r", "a", "n", "s", "l", "u", "c",
            "e", "n", "t">>
      [] s = "kozo_fibers" -> <<"k", "o", "z", "o", "_", "f", "i", "b",
            "e", "r", "s">>
      [] s = "Marc_Hesse_FineArt" -> <<"M", "a", "r", "c", "_", "H", "e",
            "s", "s", "e", "_", "F", "i", "n", "e", "A", "r", "t">>
      [] s = "business" -> <<"b", "u", "s", "i", "n", "e", "s", "s">>
      [] s = "Marc Hesse" -> <<"M", "a", "r", "c", " ", "H", "e", "s", "s",
            "e">>
      [] s = "Potsdam, Germany" -> <<"P", "o", "t", "s", "d", "a", "m",
            ",", " ", "G", "e", "r", "m", "a", "n", "y">>
      [] s = "country" -> <<"c", "o", "u", "n", "t", "r", "y">>
      [] s = "Europe" -> <<"E", "u", "r", "o", "p", "e">>
      [] s = "Berlin" -> <<"B", "e", "r", "l", "i", "n">>
      [] s = "Asia" -> <<"A", "s", "i", "a">>
      [] s = "Tokyo" -> <<"T", "o", "k", "y", "o">>
      [] s = "Paris" -> <<"P", "a", "r", "i", "s">>
      [] s = "Fine_Art_Printing" -> <<"F", "i", "n", "e", "_", "A", "r",
            "t", "_", "P", "r", "i", "n", "t", "i", "n", "g">>
      [] s = "concept" -> <<"c", "o", "n", "c", "e", "p", "t">>
      [] s = "art" -> <<"a", "r", "t">>
      [] s = "inkjet" -> <<"i", "n", "k", "j", "e", "t">>
      [] s = "Color_Management" -> <<"C", "o", "l", "o", "r", "_", "M",
            "a", "n", "a", "g", "e", "m", "e", "n", "t">>
      [] s = "technology" -> <<"t", "e", "c", "h", "n", "o", "l", "o", "g",
            "y">>
      [] s = "accuracy" -> <<"a", "c", "c", "u", "r", "a", "c", "y">>
      [] s = "Bamboo_Fiber" -> <<"B", "a", "m", "b", "o", "o", "_", "F",
            "i", "b", "e", "r">>
      [] s = "high" -> <<"h", "i", "g", "h">>
      [] s = "Cotton_Fiber" -> <<"C", "o", "t", "t", "o", "n", "_", "F",
            "i", "b", "e", "r">>
      [] s = "NewCo" -> <<"N", "e", "w", "C", "o">>
      [] s = "unknown" -> <<"u", "n", "k", "n", "o", "w", "n">>
      [] s = "GERMANY" -> <<"G", "E", "R", "M", "A", "N", "Y">>
      [] s = "" -> <<>>
      [] s = "zzz" -> <<"z", "z", "z">>

\* str.lower() on one character.
Lower(c) ==
    CASE c = "A" -> "a"
      [] c = "B" -> "b"
      [] c = "C" -> "c"
      [] c = "D" -> "d"
      [] c = "E" -> "e"
      [] c = "F" -> "f"
      [] c = "G" -> "g"
      [] c = "H" -> "h"
      [] c = "I" -> "i"
      [] c = "J" -> "j"
      [] c = "K" -> "k"
      [] c = "L" -> "l"
      [] c = "M" -> "m"
      [] c = "N" -> "n"
      [] c = "O" -> "o"
      [] c = "P" -> "p"
      [] c = "Q" -> "q"
      [] c = "R" -> "r"
      [] c = "S" -> "s"
      [] c = "T" -> "t"
      [] c = "U" -> "u"
      [] c = "V" -> "v"
      [] c = "W" -> "w"
      [] c = "X" -> "x"
      [] c = "Y" -> "y"
      [] c = "Z" -> "z"
      [] OTHER -> c

\* The string-valued attributes of the seed nodes, in the order given to
\* add_node (numbers and lists are not strings).
SeedStrings(n) ==
    CASE n = "Hahnemuehle" -> <<"company", "Germany", "Dassel",
            "fine_art_paper">>
      [] n = "Hahnemuehle_FineArt_Baryta" -> <<"paper", "FineArt Baryta",
            "325gsm", "glossy", "alpha_cellulose">>
      [] n = "Hahnemuehle_Photo_Rag" -> <<"paper", "Photo Rag", "308gsm",
            "matte", "cotton">>
      [] n = "Hahnemuehle_Bamboo" -> <<"paper", "Bamboo", "290gsm",
            "natural_white", "bamboo_90_cotton_10">>
      [] n = "Hahnemuehle_German_Etching" -> <<"paper", "German Etching",
            "310gsm", "textured", "alpha_cellulose">>
      [] n = "Hahnemuehle_Museum_Etching" -> <<"paper", "Museum Etching",
            "350gsm", "textured", "cotton">>
      [] n = "Canson" -> <<"company", "France", "fine_art_paper">>
      [] n = "Canson_Infinity_Baryta" -> <<"paper", "Infinity Baryta",
            "315gsm", "glossy">>
      [] n = "Canson_Platine_Fibre_Rag" -> <<"paper", "Platine Fibre Rag",
            "310gsm", "satin">>
      [] n = "Canson_Rag_Photographique" -> <<"paper",
            "Rag Photographique", "210gsm", "matte">>
      [] n = "Awagami" -> <<"company", "Japan", "Tokushima",
            "fine_art_paper", "washi">>
      [] n = "Awagami_Kozo" -> <<"paper", "Kozo", "110gsm", "natural",
            "mulberry">>
      [] n = "Awagami_Bamboo" -> <<"paper", "Bamboo", "170gsm", "natural",
            "bamboo">>
      [] n = "Awagami_Unryu" -> <<"paper", "Unryu", "37gsm", "translucent",
            "kozo_fibers">>
      [] n = "Marc_Hesse_FineArt" -> <<"business", "Marc Hesse",
            "Potsdam, Germany">>
      [] n = "Germany" -> <<"country", "Europe", "Berlin">>
      [] n = "Japan" -> <<"country", "Asia", "Tokyo">>
      [] n = "France" -> <<"country", "Europe", "Paris">>
      [] n = "Fine_Art_Printing" -> <<"concept", "art", "inkjet">>
      [] n = "Color_Management" -> <<"concept", "technology", "accuracy">>
      [] n = "Bamboo_Fiber" -> <<"concept", "natural", "high">>
      [] n = "Cotton_Fiber" -> <<"concept", "natural", "high">>

\* Queries given to search_nodes: a word of several ids and attributes, an
\* upper-case word, the node type of placeholders, an ingested id, the empty
\* string and a word that occurs nowhere.
SearchQueries == {"bamboo", "GERMANY", "unknown", "NewCo", "", "zzz"}

\* Limits given to search_nodes: a negative one, none, fewer than the matches,
\* and the default of 10.
SearchLimits == {-1, 0, 1, 2, 10}

\* s.lower()
LowerSeq(cs) == [i \in 1..Len(cs) |-> Lower(cs[i])]

\* needle in hay, on character sequences (the empty needle is in every string).
Contains(needle, hay) ==
    \E i \in 0..(Len(hay) - Len(needle)) :
        SubSeq(hay, i + 1, i + Len(needle)) = needle

\* The values v of node_data.items() with isinstance(v, str): the seed
\* attributes, and node_type of a placeholder node (verified=False is a bool).
StringValues(A, n) ==
    IF n \in Range(SeedNodes) THEN SeedStrings(n) ELSE <<A[n].node_type>>

\* The strings a search can meet: ids and string values of the nodes.
SearchStrings ==
    Range(SeedNodes) \cup UNION {Range(SeedStrings(n)) : n \in Range(SeedNodes)}
        \cup {"NewCo", "unknown"}

\* query.lower() in s.lower(), tabulated over the queries and strings.
InLower ==
    [query \in SearchQueries |->
        [s \in SearchStrings |->
            Contains(LowerSeq(Chars(query)), LowerSeq(Chars(s)))]]

\* The condition under which the loop body appends node_id.
MatchesQuery(A, n, query) ==
    \/ InLower[query][n]
    \/ \E k \in 1..Len(StringValues(A, n)) : InLower[query][StringValues(A, n)[k]]

\* results[:limit] of a Python list: a negative limit counts from the end.
SliceTo(results, limit) ==
    LET stop == IF limit >= 0
                THEN (IF limit < Len(results) THEN limit ELSE Len(results))
                ELSE (IF Len(results) + limit > 0 THEN Len(results) + limit ELSE 0)
    IN  SubSeq(results, 1, stop)

\* CausalGraph.search_nodes(query, limit): the ids of the returned entries.
SearchNodes(N, A, query, limit) ==
    SliceTo(SelectSeq(N, LAMBDA n : MatchesQuery(A, n, query)), limit)

\* A caller searches the graph.
CallSearchNodes ==
    /\ \E query \in SearchQueries, limit \in SearchLimits :
          lastSearch' = [called |-> TRUE, query |-> query, limit |-> limit,
                         results |-> SearchNodes(semNodes, nodeAttr, query, limit)]
    /\ lastOp' = "search_nodes"
    /\ UNCHANGED <<threads, crawl, request, graphVars, detectorVars, policyVars,
                   factLog, lastResult, lastDecision, decideCalls, lastQuery,
                   calcCalls>>

---------------------------------------------------------------------------
(* The scoring and decision path: the score of the last result is decided *)

\* decide_action(result.dissonance_score, 0, total_tokens_planned) on the
\* result calculate_dissonance returned last.
DecideOnResult ==
    /\ total_decisions < MaxDecisions
    /\ lastResult.called
    /\ \E n \in TokenCounts : DecideActionWith(lastResult.result.score, 0, n)
    /\ decideCalls' = decideCalls + 1
    /\ lastOp' = "decide_action"
    /\ UNCHANGED <<auxVars, graphVars, detectorVars, factLog, lastResult, lastQuery,
                   calcCalls>>

---------------------------------------------------------------------------
(* WikipediaCrawler.crawl_topic *)

\* Pages a crawl is started on: a plain title and a URL-encoded one.
StartPages == {"Python", "C%2B%2B"}

\* urllib.parse.unquote on the page names of the model.
Unquote(page_title) ==
    CASE page_title = "C%2B%2B" -> "C++"
      [] OTHER -> page_title

\* title.replace(' ', '_') on the titles of the model.
NodeIdOf(title) ==
    CASE title = "Monty Python" -> "Monty_Python"
      [] OTHER -> title

\* An entry of parse_data['links']: its title, and whether it passes the
\* tests ns == 0, no ':' in the title, not starting with 'List of'.
Link(title, main) == [title |-> title, main |-> main]

\* The link lists a page may come with: none, one link, a list with an entry
\* outside the main namespace, and a list of six links.
LinksData ==
    {<<>>,
     <<Link("C++", TRUE)>>,
     <<Link("Python", TRUE), Link("Help:Contents", FALSE),
       Link("Monty Python", TRUE)>>,
     <<Link("C++", TRUE), Link("Python", TRUE), Link("Monty Python", TRUE),
       Link("C++", TRUE), Link("Python", TRUE), Link("Guido", TRUE)>>}

\* What _crawl_page gets for a page: no usable answer (request failed, API
\* error, no parse data), or parse data with its links.
PageAnswers ==
    {[success |-> FALSE, links_data |-> <<>>]} \cup
    {[success |-> TRUE, links_data |-> l] : l \in LinksData}

\* s[:k] of a Python list, k >= 0.
Take(s, k) == SubSeq(s, 1, Min(k, Len(s)))

\* _crawl_page: the titles of the entries that pass the namespace tests.
MainLinks(links_data) ==
    LET kept == SelectSeq(links_data, LAMBDA l : l.main)
    IN  [i \in 1..Len(kept) |-> kept[i].title]

WikipediaNodeAttr == [node_type |-> "wikipedia_page", verified |-> "absent"]

WikipediaEdgeAttr ==
    [relation |-> "links_to", confidence |-> (7 * Unit) \div 10,
     source |-> "wikipedia", added_at |-> -1]

\* _crawl_page, "Add links as nodes and edges": the node and edge lists after
\* the loop over links.
RECURSIVE AddLinks(_, _, _, _)
AddLinks(N, E, node_id, links) ==
    IF links = <<>> THEN [nodes |-> N, edges |-> E]
    ELSE LET link_id == NodeIdOf(Head(links))
         IN  AddLinks(AddNodeSeq(N, link_id), AddEdgeSeq(E, node_id, link_id),
                      node_id, Tail(links))

\* The crawler before crawl_topic is called: empty caches.  fetch records
\* the last page request of the running call (the name popped, the title
\* requested, and whether that title was crawled successfully before),
\* crawled_titles the titles crawled successfully.
IdleCrawl ==
    [pc |-> "idle", calls |-> 0, queue |-> <<>>, crawled_pages |-> {},
     failed_pages |-> {}, pages_crawled |-> 0, failed |-> 0, max_pages |-> 0,
     max_depth |-> 0, crawled_titles |-> {},
     fetch |-> [made |-> FALSE, page |-> "None", title |-> "None", depth |-> 0,
                again |-> FALSE]]

\* crawl_topic(start_page, max_pages, max_depth) up to the loop: new stats,
\* queue = [(start_page, 0)]; the caches of the crawler are kept.
CrawlTopic ==
    /\ crawl.pc = "idle"
    /\ crawl.calls < MaxCrawls
    /\ \E start_page \in StartPages, max_pages \in 0..MaxPages,
          max_depth \in 0..MaxCrawlDepth :
          crawl' = [crawl EXCEPT !.pc = "loop",
                                 !.calls = @ + 1,
                                 !.queue = <<[page |-> start_page, depth |-> 0]>>,
                                 !.pages_crawled = 0,
                                 !.failed = 0,
                                 !.max_pages = max_pages,
                                 !.max_depth = max_depth,
                                 !.fetch = IdleCrawl.fetch]
    /\ lastOp' = "crawl_topic"
    /\ UNCHANGED <<threads, lastSearch, request, graphVars, detectorVars,
                   policyVars, factLog, lastResult, lastDecision, decideCalls,
                   lastQuery, calcCalls>>

\* The loop condition of crawl_topic.
CrawlLoopRuns ==
    /\ crawl.pc = "loop"
    /\ crawl.queue # <<>>
    /\ crawl.pages_crawled < crawl.max_pages

\* One iteration that pops a page already crawled or too deep: continue.
CrawlSkip ==
    /\ CrawlLoopRuns
    /\ LET current == Head(crawl.queue)
       IN  /\ current.page \in crawl.crawled_pages \/ current.depth > crawl.max_depth
           /\ crawl' = [crawl EXCEPT !.queue = Tail(@)]
    /\ lastOp' = "crawl_topic"
    /\ UNCHANGED <<threads, lastSearch, request, graphVars, detectorVars,
                   policyVars, factLog, lastResult, lastDecision, decideCalls,
                   lastQuery, calcCalls>>

\* One iteration that calls _crawl_page on the popped page.  On success the
\* page and its first ten links are inserted into the graph, the page is
\* counted and cached and, below max_depth, its first five links not yet
\* cached are queued; on failure the page is counted and cached as failed.
CrawlPage ==
    /\ CrawlLoopRuns
    /\ LET current == Head(crawl.queue)
           title   == Unquote(current.page)
           fetch   == [made |-> TRUE, page |-> current.page, title |-> title,
                       depth |-> current.depth,
                       again |-> title \in crawl.crawled_titles]
       IN  /\ ~(current.page \in crawl.crawled_pages \/ current.depth > crawl.max_depth)
           /\ \E answer \in PageAnswers :
                 IF answer.success
                 THEN LET links   == MainLinks(answer.links_data)
                          node_id == NodeIdOf(title)
                          graph   == AddLinks(AddNodeSeq(semNodes, node_id), semEdges,
                                              node_id, Take(links, 10))
                          crawled == crawl.crawled_pages \cup {current.page}
                          queued  == IF current.depth < crawl.max_depth
                                     THEN SelectSeq(Take(links, 5),
                                                    LAMBDA l : l \notin crawled)
                                     ELSE <<>>
                      IN  /\ crawl' =
                                [crawl EXCEPT
                                    !.queue = Tail(@) \o
                                        [i \in 1..Len(queued) |->
                                            [page |-> queued[i],
                                             depth |-> current.depth + 1]],
                                    !.pages_crawled = @ + 1,
                                    !.crawled_pages = crawled,
                                    !.crawled_titles = @ \cup {title},
                                    !.fetch = fetch]
                          /\ semNodes' = graph.nodes
                          /\ nodeAttr' = [n \in Range(graph.nodes) |->
                                             IF n \in DOMAIN nodeAttr THEN nodeAttr[n]
                                             ELSE WikipediaNodeAttr]
                          /\ semEdges' = graph.edges
                          /\ edgeAttr' = [e \in Range(graph.edges) |->
                                             IF e \in DOMAIN edgeAttr THEN edgeAttr[e]
                                             ELSE WikipediaEdgeAttr]
                 ELSE /\ crawl' = [crawl EXCEPT !.queue = Tail(@),
                                                !.failed = @ + 1,
                                                !.failed_pages = @ \cup {current.page},
                                                !.fetch = fetch]
                      /\ UNCHANGED <<semNodes, nodeAttr, semEdges, edgeAttr>>
    /\ lastOp' = "crawl_topic"
    /\ UNCHANGED <<threads, lastSearch, request, epiNodes, epiAttr, last_update, now,
                   detectorVars, policyVars, factLog, lastResult, lastDecision,
                   decideCalls, lastQuery, calcCalls>>

\* The loop condition fails: crawl_topic returns its stats.
CrawlReturn ==
    /\ crawl.pc = "loop"
    /\ ~CrawlLoopRuns
    /\ crawl' = [crawl EXCEPT !.pc = "idle", !.queue = <<>>]
    /\ lastOp' = "crawl_topic"
    /\ UNCHANGED <<threads, lastSearch, request, graphVars, detectorVars,
                   policyVars, factLog, lastResult, lastDecision, decideCalls,
                   lastQuery, calcCalls>>

---------------------------------------------------------------------------
(* WikipediaCrawler._make_request *)

\* WikipediaCrawler.max_retries
max_retries == 3

\* What one requests.get with the following response.json() comes to: status
\* 200 with a JSON body, status 429, another status, requests.Timeout,
\* requests.ConnectionError, and any other exception (of requests.get, or of
\* response.json() on a 200 whose body is not JSON).
Outcomes ==
    {"200", "429", "status", "timeout", "connection_error", "bad_json",
     "exception"}

\* The outcomes after which the code looks at the attempt number.
Retryable == {"429", "status", "timeout", "connection_error"}

\* Faulty variant of the retry test: the last attempt is retried as well.
ShouldRetryInclusive(attempt) == attempt <= max_retries

\* if attempt < self.max_retries
ShouldRetry(attempt) == attempt < max_retries

\* No _make_request call in progress.  attempts counts the requests.get calls
\* of the current call, outcomes logs what each came to.
IdleRequest ==
    [pc |-> "idle", calls |-> 0, attempt |-> 0, attempts |-> 0,
     outcomes |-> <<>>, returned |-> "nothing"]

\* _crawl_page calls self._make_request(params): attempt = 1.
MakeRequest ==
    /\ request.pc = "idle"
    /\ request.calls < MaxRequests
    /\ request' = [pc |-> "running", calls |-> request.calls + 1, attempt |-> 1,
                   attempts |-> 0, outcomes |-> <<>>, returned |-> "nothing"]
    /\ lastOp' = "_make_request"
    /\ UNCHANGED <<threads, lastSearch, crawl, graphVars, detectorVars, policyVars,
                   factLog, lastResult, lastDecision, decideCalls, lastQuery,
                   calcCalls>>

\* The body of _make_request for the current attempt: one requests.get, then
\* the parsed response, None, or the recursive call with attempt + 1.
RequestAttempt ==
    /\ request.pc = "running"
    /\ \E outcome \in Outcomes :
          LET made == [request EXCEPT !.attempts = @ + 1,
                                      !.outcomes = Append(@, outcome)]
          IN  request' =
                  IF outcome = "200"
                  THEN [made EXCEPT !.pc = "idle", !.returned = "json"]
                  ELSE IF outcome \in Retryable /\ ShouldRetry(request.attempt)
                  THEN [made EXCEPT !.attempt = @ + 1]
                  ELSE [made EXCEPT !.pc = "idle", !.returned = "None"]
    /\ lastOp' = "_make_request"
    /\ UNCHANGED <<threads, lastSearch, crawl, graphVars, detectorVars, policyVars,
                   factLog, lastResult, lastDecision, decideCalls, lastQuery,
                   calcCalls>>

---------------------------------------------------------------------------
(* The system *)

Init ==
    /\ semNodes = SeedNodes
    /\ nodeAttr = [n \in Range(SeedNodes) |->
                      [node_type |-> SeedNodeType(n), verified |-> "absent"]]
    /\ semEdges = SeedEdges
    /\ edgeAttr = [e \in Range(SeedEdges) |-> SeedEdgeAttr(e)]
    /\ epiNodes = <<>>
    /\ epiAttr = <<>>
    /\ last_update = 0
    /\ now = 0
    /\ detection_history = <<>>
    /\ total_detections = 0
    /\ inhibitions_triggered = 0
    /\ total_decisions = 0
    /\ inhibitions_by_type = [k \in InhibitionKeys |-> 0]
    /\ total_tokens_saved = 0
    /\ decision_history = <<>>
    /\ factLog = <<>>
    /\ lastResult = [called |-> FALSE, text |-> [time |-> FALSE, phrases |-> {}],
                     claim |-> NoClaim, result |-> NoResult]
    /\ lastDecision = NoDecision
    /\ lastOp = "init"
    /\ decideCalls = 0
    /\ lastQuery = NoQuery
    /\ calcCalls = 0
    /\ threads = [t \in ThreadIds |-> IdleThread]
    /\ lastSearch = NoSearch
    /\ crawl = IdleCrawl
    /\ request = IdleRequest
    /\ opCount = 0

\* One operation of a mixed session of at most MaxOps operations.
Budget == opCount < MaxOps /\ opCount' = opCount + 1

\* A session that mixes ingestion, scoring and decisions.
Next ==
    \/ Budget /\ AddVerifiedFact
    \/ Budget /\ CalculateDissonance
    \/ Budget /\ ResetSession
    \/ Budget /\ DecideAction

Spec == Init /\ [][Next]_vars

\* Ingestion only.
NextGraph == AddVerifiedFact /\ UNCHANGED opCount

SpecGraph == Init /\ [][NextGraph]_vars

\* Ingestion on the path entities, and readers of the graph.
NextQuery ==
    \/ AddPathFact /\ UNCHANGED opCount
    \/ CallQueryRelationship /\ UNCHANGED opCount
    \/ CallGetNodeInfo /\ UNCHANGED opCount

SpecQuery == Init /\ [][NextQuery]_vars

\* The scorer on the seed graph.
NextDetector ==
    \/ CalculateDissonance /\ UNCHANGED opCount
    \/ ResetSession /\ UNCHANGED opCount

SpecDetector == Init /\ [][NextDetector]_vars

\* The scorer on a graph that learns facts between scorings.
NextScorer ==
    \/ AddScorerFact /\ UNCHANGED opCount
    \/ CalculatePlainClaim /\ UNCHANGED opCount

SpecScorer == Init /\ [][NextScorer]_vars

\* Threads calling calculate_dissonance on one scorer, with no lock.
NextConcurrentScorer ==
    \E t \in ThreadIds :
        \/ CalcAppend(t) /\ UNCHANGED opCount
        \/ CalcLoadTotal(t) /\ UNCHANGED opCount
        \/ CalcStoreTotal(t) /\ UNCHANGED opCount
        \/ CalcLoadInhibitions(t) /\ UNCHANGED opCount
        \/ CalcStoreInhibitions(t) /\ UNCHANGED opCount

SpecConcurrentScorer == Init /\ [][NextConcurrentScorer]_vars

\* Threads ingesting facts while other callers read the graph, with no
\* lock.
NextConcurrentGraph ==
    \/ \E t \in ThreadIds : IngestNodes(t) /\ UNCHANGED opCount
    \/ \E t \in ThreadIds : IngestEdge(t) /\ UNCHANGED opCount
    \/ CallQueryRelationship /\ UNCHANGED opCount
    \/ CallGetNodeInfo /\ UNCHANGED opCount

SpecConcurrentGraph == Init /\ [][NextConcurrentGraph]_vars

\* The policy alone.
NextPolicy == DecideAction /\ UNCHANGED opCount

SpecPolicy == Init /\ [][NextPolicy]_vars

\* Ingestion on the path entities, and searches.
NextSearch ==
    \/ AddPathFact /\ UNCHANGED opCount
    \/ CallSearchNodes /\ UNCHANGED opCount

SpecSearch == Init /\ [][NextSearch]_vars

\* Sessions of at most MaxOps operations that mix ingestion with the readers
\* of the graph: scoring, deciding, querying, looking up and searching.
NextFrame ==
    \/ Budget /\ AddScorerFact
    \/ Budget /\ CalculatePlainClaim
    \/ Budget /\ DecideOnResult
    \/ Budget /\ CallQueryRelationship
    \/ Budget /\ CallGetNodeInfo
    \/ Budget /\ CallSearchNodes

SpecFrame == Init /\ [][NextFrame]_vars

\* The crawler: at most MaxCrawls calls of crawl_topic on one crawler.
NextCrawl ==
    \/ CrawlTopic /\ UNCHANGED opCount
    \/ CrawlSkip /\ UNCHANGED opCount
    \/ CrawlPage /\ UNCHANGED opCount
    \/ CrawlReturn /\ UNCHANGED opCount

SpecCrawl == Init /\ [][NextCrawl]_vars

\* A call of crawl_topic that has started runs on: the loop is sequential
\* code and every page fetch returns.
CrawlRuns == (CrawlSkip \/ CrawlPage \/ CrawlReturn) /\ UNCHANGED opCount

SpecCrawlRuns == SpecCrawl /\ WF_vars(CrawlRuns)

\* Calls of _make_request, one after the other.
NextRequest ==
    \/ MakeRequest /\ UNCHANGED opCount
    \/ RequestAttempt /\ UNCHANGED opCount

SpecRequest == Init /\ [][NextRequest]_vars


---------------------------------------------------------------------------
(* Properties of the policy (InhibitionController) *)

\* A score given in hundredths (90 for 0.90), on the scale of total scores.
ScoreOf(hundredths) == hundredths * Unit

FourActions == {"abort", "reframe", "add_uncertainty", "continue"}

\* C1: for every dissonance score s, decide_action returns a Decision (it
\* does not raise) whose action is exactly one of the four: abort iff
\* s >= 0.90, reframe iff 0.65 <= s < 0.90, add_uncertainty iff
\* 0.30 <= s < 0.65, continue iff s < 0.30.
C1_DecideActionReturnsOneOfFour ==
    lastDecision.called =>
        LET s == lastDecision.dissonance_score
            a == lastDecision.action
        IN  /\ ~lastDecision.raised
            /\ a \in FourActions
            /\ (a = "abort") <=> (s >= ScoreOf(90))
            /\ (a = "reframe") <=> (ScoreOf(65) <= s /\ s < ScoreOf(90))
            /\ (a = "add_uncertainty") <=> (ScoreOf(30) <= s /\ s < ScoreOf(65))
            /\ (a = "continue") <=> (s < ScoreOf(30))

\* C2: after any sequence of decide_action calls the policy statistics are
\* mutually consistent: total_decisions equals the number of calls made,
\* the sum of the per-action counters and the number of entries of the
\* decision history, and total_tokens_saved equals the sum of tokens_saved
\* over the recorded decisions.
C2_StatisticsConsistent ==
    /\ total_decisions = decideCalls
    /\ total_decisions =
          inhibitions_by_type["continue"] + inhibitions_by_type["uncertainty"]
          + inhibitions_by_type["reframe"] + inhibitions_by_type["abort"]
    /\ total_decisions = Len(decision_history)
    /\ total_tokens_saved =
          SumSeq([i \in 1..Len(decision_history) |->
                     decision_history[i].tokens_saved])

\* C3: every Decision returned by decide_action, for any token_index and
\* total_tokens_planned, has tokens_saved non-negative and not larger than
\* the tokens remaining, and energy_saved_percent between 0 and 100.
C3_DecisionWithinBounds ==
    (lastDecision.called /\ ~lastDecision.raised) =>
        LET remaining == Max(lastDecision.total_tokens_planned
                             - lastDecision.token_index, 0)
        IN  /\ lastDecision.tokens_saved >= 0
            /\ lastDecision.tokens_saved <= remaining
            /\ lastDecision.energy_num >= 0
            /\ lastDecision.energy_num <= 100 * lastDecision.energy_den

\* The scorer's level that corresponds to a policy action.
LevelOfAction(a) ==
    CASE a = "abort" -> "abort"
      [] a = "reframe" -> "reframe"
      [] a = "add_uncertainty" -> "uncertainty"
      [] a = "continue" -> "none"
      [] OTHER -> "no level"

\* C7: the scorer and the policy never diverge: for every score s the
\* level the scorer assigns to s and the action decide_action selects for s
\* correspond (abort-abort, reframe-reframe, uncertainty-add_uncertainty,
\* none-continue), and should_inhibit is true exactly when the selected
\* action is one that saves the remaining tokens (abort or reframe).
C7_ScorerAndPolicyAgree ==
    lastDecision.called =>
        LET c == Classify(lastDecision.dissonance_score)
            remaining == lastDecision.total_tokens_planned
                         - lastDecision.token_index
        IN  /\ c.inhibition_level = LevelOfAction(lastDecision.action)
            /\ c.should_inhibit <=> lastDecision.action \in {"abort", "reframe"}
            /\ c.should_inhibit => lastDecision.tokens_saved = remaining
            /\ ~c.should_inhibit => lastDecision.tokens_saved = 0

\* C7's case: two decisions in the reframe band, one for a score just below
\* the abort threshold and one exactly on the reframe threshold, with tokens
\* remaining.
C7_Witness ==
    /\ lastDecision.called
    /\ lastDecision.dissonance_score = ScoreOf(65)
    /\ lastDecision.action = "reframe"
    /\ lastDecision.tokens_saved > 0
    /\ \E d \in Range(decision_history) :
          d.dissonance = ScoreOf(90) - 1 /\ d.action = "reframe"


---------------------------------------------------------------------------
(* Properties of the scorer (DissonanceDetector) and of a session *)

InUnit(x) == 0 <= x /\ x <= Unit

ResultInRange(r) ==
    /\ 0 <= r.score /\ r.score <= ScoreOf(100)
    /\ InUnit(r.semantic) /\ InUnit(r.epistemic) /\ InUnit(r.self_model)

\* C4: after any sequence of add_verified_fact and calculate_dissonance
\* calls, every edge of the knowledge graph has confidence in [0,1] and
\* every DissonanceResult (total score and each axis) has a value in [0,1].
C4_ConfidencesAndScoresInUnit ==
    /\ \A e \in Range(semEdges) : InUnit(edgeAttr[e].confidence)
    /\ \A r \in Range(detection_history) : ResultInRange(r)
    /\ lastResult.called => ResultInRange(lastResult.result)

\* The same, for results only: the scorer does not clamp what it computes
\* from an edge confidence.
C4_ScoresInUnit ==
    /\ \A r \in Range(detection_history) : ResultInRange(r)
    /\ lastResult.called => ResultInRange(lastResult.result)

\* C5: within a session every statistics counter of the scorer
\* (total_detections, inhibitions_triggered) and of the policy
\* (total_decisions, each per-action counter, total_tokens_saved) never
\* decreases from one operation to the next, except by reset_session.
C5_CountersNeverDecrease ==
    [][lastOp' # "reset_session" =>
          /\ total_detections' >= total_detections
          /\ inhibitions_triggered' >= inhibitions_triggered
          /\ total_decisions' >= total_decisions
          /\ \A k \in InhibitionKeys :
                inhibitions_by_type'[k] >= inhibitions_by_type[k]
          /\ total_tokens_saved' >= total_tokens_saved]_vars

LevelMatchesScore(r) ==
    /\ (r.inhibition_level = "abort") <=> (r.score >= ScoreOf(90))
    /\ (r.inhibition_level = "reframe") <=>
          (ScoreOf(65) <= r.score /\ r.score < ScoreOf(90))
    /\ (r.inhibition_level = "uncertainty") <=>
          (ScoreOf(30) <= r.score /\ r.score < ScoreOf(65))
    /\ (r.inhibition_level = "none") <=> (r.score < ScoreOf(30))
    /\ r.should_inhibit <=> (r.score >= ScoreOf(65))
    /\ r.should_inhibit <=> (r.inhibition_level \in {"reframe", "abort"})

\* C6: for every DissonanceResult returned by calculate_dissonance,
\* inhibition_level is abort iff score >= 0.90, reframe iff
\* 0.65 <= score < 0.90, uncertainty iff 0.30 <= score < 0.65, none iff
\* score < 0.30, and should_inhibit is true iff score >= 0.65 (the level is
\* reframe or abort).
C6_LevelMatchesScore ==
    /\ \A r \in Range(detection_history) : LevelMatchesScore(r)
    /\ lastResult.called => LevelMatchesScore(lastResult.result)

\* C6's case: the scorer has returned a result of level abort and then one
\* of level uncertainty.
C6_Witness ==
    /\ Len(detection_history) = 2
    /\ detection_history[1].inhibition_level = "abort"
    /\ detection_history[2].inhibition_level = "uncertainty"
    /\ lastResult.called
    /\ lastResult.result = detection_history[2]


---------------------------------------------------------------------------
(* Properties of ingestion (CausalGraph.add_verified_fact) *)

\* The edge u -> v is in the graph and carries the attributes of call f.
EdgeCarries(u, v, f) ==
    /\ HasEdge(semEdges, u, v)
    /\ <<u, v>> \in DOMAIN edgeAttr
    /\ edgeAttr[<<u, v>>].relation = f.relation
    /\ edgeAttr[<<u, v>>].confidence = f.confidence
    /\ edgeAttr[<<u, v>>].source = f.source

LastFact == factLog[Len(factLog)]

\* C8, as stated: add_verified_fact(a, b, relation, confidence, source)
\* inserts or overwrites the edge (b, a): after the call the graph holds a
\* directed edge from b to a carrying the given relation, confidence and
\* source.
C8_EdgeFromBToA ==
    factLog # <<>> => EdgeCarries(LastFact.args.b, LastFact.args.a, LastFact.args)

\* C8, amended: after add_verified_fact(a, b, relation, confidence, source)
\* the graph holds a directed edge from a to b carrying the given relation,
\* confidence and source.
C8_EdgeFromAToB ==
    factLog # <<>> => EdgeCarries(LastFact.args.a, LastFact.args.b, LastFact.args)

\* C8's case: a fact between two different entities was added and the
\* graph holds no edge in the opposite direction.
C8_Witness ==
    /\ factLog # <<>>
    /\ LastFact.args.a # LastFact.args.b
    /\ HasEdge(semEdges, LastFact.args.a, LastFact.args.b)
    /\ ~HasEdge(semEdges, LastFact.args.b, LastFact.args.a)

\* Call i is the most recent add_verified_fact call for its ordered pair.
IsLatestForPair(i) ==
    \A j \in (i + 1)..Len(factLog) :
        <<factLog[j].args.a, factLog[j].args.b>>
            # <<factLog[i].args.a, factLog[i].args.b>>

\* C9: ingestion conflicts are resolved last-write-wins: after any sequence
\* of add_verified_fact calls the edge between an ordered pair of endpoints
\* carries the relation, confidence and source (and time) of the most
\* recent call for that pair, and query_relationship on the pair reports
\* the latest relation and confidence; a further call for a pair whose edge
\* exists is accepted.
C9_LastWriteWins ==
    /\ \A i \in 1..Len(factLog) :
          IsLatestForPair(i) =>
              LET f == factLog[i].args
                  q == QueryRelationship(semNodes, semEdges, edgeAttr, f.a, f.b)
              IN  /\ EdgeCarries(f.a, f.b, f)
                  /\ edgeAttr[<<f.a, f.b>>].added_at = factLog[i].at
                  /\ q.exists /\ q.direct
                  /\ q.relation_type = f.relation
                  /\ q.confidence = f.confidence
    /\ (Len(factLog) < MaxFacts /\ now < MaxClock) =>
          \A f \in FactArgs :
              HasEdge(semEdges, f.a, f.b) => ENABLED AddVerifiedFactAt(f, now + 1)

\* C9's case: a second call for the same ordered pair changed the relation,
\* the confidence or the source of the edge written by the first.
C9_Witness ==
    /\ Len(factLog) = 2
    /\ factLog[1].args.a = factLog[2].args.a
    /\ factLog[1].args.b = factLog[2].args.b
    /\ factLog[1].args.relation # factLog[2].args.relation
    /\ factLog[1].args.source # factLog[2].args.source
    /\ factLog[2].edges_before = factLog[2].edges_after

\* C10: calling add_verified_fact twice with identical arguments leaves the
\* edge count and the node count of the knowledge graph the same as after
\* the first call; only the edge's attributes are refreshed (the edge
\* carries the same relation, confidence and source, and the time of the
\* second call).
C10_IdempotentOnSize ==
    \A i \in 1..(Len(factLog) - 1) :
        factLog[i + 1].args = factLog[i].args =>
            /\ factLog[i + 1].edges_before = factLog[i].edges_after
            /\ factLog[i + 1].nodes_before = factLog[i].nodes_after
            /\ factLog[i + 1].edges_after = factLog[i].edges_after
            /\ factLog[i + 1].nodes_after = factLog[i].nodes_after
            /\ (i + 1 = Len(factLog)) =>
                  /\ NumberOfEdges(semEdges) = factLog[i].edges_after
                  /\ NumberOfNodes(semNodes) = factLog[i].nodes_after
                  /\ EdgeCarries(factLog[i].args.a, factLog[i].args.b,
                                 factLog[i].args)
                  /\ edgeAttr[<<factLog[i].args.a, factLog[i].args.b>>].added_at
                        = factLog[i + 1].at

\* C10's case: the same call was made twice, the first one having created
\* a new edge and a new node, the second one a second later.
C10_Witness ==
    /\ Len(factLog) = 2
    /\ factLog[2].args = factLog[1].args
    /\ factLog[1].edges_after = factLog[1].edges_before + 1
    /\ factLog[1].nodes_after = factLog[1].nodes_before + 1
    /\ factLog[2].at = factLog[1].at + 1

---------------------------------------------------------------------------
(* C11: the episodic log of learning events *)

\* C11: every call of add_verified_fact appends exactly one new learning
\* event to the episodic log, whether the edge was new or overwritten:
\* after n calls, at any times (several within one clock second included),
\* the log holds n more records than before, and no earlier record is ever
\* modified or removed.
C11_OneEventPerCall ==
    /\ NumberOfNodes(epiNodes) = Len(factLog)
    /\ \A i \in 1..Len(factLog) :
          /\ factLog[i].events_after = factLog[i].events_before + 1
          /\ \E k \in DOMAIN epiAttr :
                /\ epiAttr[k].fact = <<factLog[i].args.a,
                                       factLog[i].args.relation,
                                       factLog[i].args.b>>
                /\ epiAttr[k].confidence = factLog[i].args.confidence
                /\ epiAttr[k].timestamp = factLog[i].at

---------------------------------------------------------------------------
(* C12: endpoints of ingested facts *)

\* The entities named by the add_verified_fact calls made so far.
FactEndpoints ==
    {factLog[i].args.a : i \in 1..Len(factLog)}
        \cup {factLog[i].args.b : i \in 1..Len(factLog)}

\* C12: after any sequence of add_verified_fact calls, both endpoints of
\* every edge exist in the node set; an endpoint that did not exist before
\* the call was created as a placeholder node marked unverified (node type
\* "unknown"), and an endpoint that already existed keeps its node
\* attributes unchanged (a seed node still carries its seed attributes, a
\* placeholder stays a placeholder).
C12_EndpointsExist ==
    /\ \A e \in Range(semEdges) :
          HasNode(semNodes, e[1]) /\ HasNode(semNodes, e[2])
    /\ \A n \in FactEndpoints : HasNode(semNodes, n)
    /\ DOMAIN nodeAttr = Range(semNodes)
    /\ \A n \in Range(semNodes) :
          IF n \in Range(SeedNodes)
          THEN nodeAttr[n] = [node_type |-> SeedNodeType(n),
                              verified |-> "absent"]
          ELSE /\ n \in FactEndpoints
               /\ nodeAttr[n].node_type = "unknown"
               /\ nodeAttr[n].verified = "False"

\* C12's case: the last call named one entity unknown to the graph and one
\* seed node; an earlier call had already touched that seed node.
C12_Witness ==
    /\ Len(factLog) = 2
    /\ factLog[2].nodes_after = factLog[2].nodes_before + 1
    /\ factLog[2].args.a = "NewCo"
    /\ factLog[2].args.b = "Hahnemuehle"
    /\ factLog[1].args.a = "Hahnemuehle"
    /\ factLog[1].args.b = "Marc_Hesse_FineArt"
    /\ nodeAttr["NewCo"] = PlaceholderAttr
    /\ nodeAttr["Hahnemuehle"].node_type = "company"

---------------------------------------------------------------------------
(* C13: directionality of query_relationship *)

\* A directed path from a to b with at most 4 nodes, a # b: one, two or
\* three edges, each followed from its source to its target.
DirectedPathWithin4(E, N, a, b) ==
    \/ <<a, b>> \in Range(E)
    \/ \E x \in Range(N) : <<a, x>> \in Range(E) /\ <<x, b>> \in Range(E)
    \/ \E x \in Range(N) : \E y \in Range(N) :
          /\ <<a, x>> \in Range(E)
          /\ <<x, y>> \in Range(E)
          /\ <<y, b>> \in Range(E)

\* The query just answered asked for the reverse of an existing edge.
ReverseOfEdgeQueried ==
    /\ lastOp = "query_relationship"
    /\ HasEdge(semEdges, lastQuery.b, lastQuery.a)

\* C13 as stated: on every graph reachable by adding facts, when the edge
\* a -> b exists, query_relationship(b, a).exists is true only if the edge
\* b -> a was also added.
C13_ReverseExistsOnlyByReverseEdge ==
    (ReverseOfEdgeQueried /\ lastQuery.result.exists)
        => HasEdge(semEdges, lastQuery.a, lastQuery.b)

\* C13, amended: on every graph reachable by adding facts, the existence of
\* an edge a -> b does not by itself make query_relationship(b, a).exists
\* true; query_relationship(b, a).exists is true exactly when a directed
\* path from b to a with at most 4 nodes exists (the edge b -> a, or a
\* chain of two or three edges each followed in its own direction).
C13_ReverseExistsOnlyByDirectedPath ==
    ReverseOfEdgeQueried =>
        (lastQuery.result.exists
            <=> DirectedPathWithin4(semEdges, semNodes, lastQuery.a,
                                    lastQuery.b))

\* C13's case: the edge Marc_Hesse_FineArt -> Hahnemuehle exists, its
\* reverse was never added, and the reverse query finds the ingested chain
\* Hahnemuehle -> NewCo -> Marc_Hesse_FineArt.
C13_Witness ==
    /\ ReverseOfEdgeQueried
    /\ lastQuery.a = "Hahnemuehle"
    /\ lastQuery.b = "Marc_Hesse_FineArt"
    /\ ~HasEdge(semEdges, "Hahnemuehle", "Marc_Hesse_FineArt")
    /\ lastQuery.result.exists
    /\ lastQuery.result.relation_type = "indirect"
    /\ lastQuery.path = <<"Hahnemuehle", "NewCo", "Marc_Hesse_FineArt">>

---------------------------------------------------------------------------
(* C14: unknown ids *)

\* The id is a node of neither the knowledge graph nor the self-model.
UnknownId(n) == ~HasNode(semNodes, n) /\ n \notin SelfModelNodes

---------------------------------------------------------------------------
(* C15: query_relationship against its reference result *)

\* The number of nodes of a shortest directed path from a to b among the
\* paths with at most 4 nodes, a and b nodes of the graph; 0 when there is
\* none.  A path of one node exists exactly when a = b.
ReferencePathNodes(E, N, a, b) ==
    IF a = b THEN 1
    ELSE IF <<a, b>> \in Range(E) THEN 2
    ELSE IF \E x \in Range(N) :
               <<a, x>> \in Range(E) /\ <<x, b>> \in Range(E) THEN 3
    ELSE IF \E x \in Range(N) : \E y \in Range(N) :
               /\ <<a, x>> \in Range(E)
               /\ <<x, y>> \in Range(E)
               /\ <<y, b>> \in Range(E) THEN 4
    ELSE 0

\* The reference result of query_relationship(a, b) for nodes a and b.
ReferenceRelationship(E, N, A, a, b) ==
    IF <<a, b>> \in Range(E)
    THEN [exists |-> TRUE, relation_type |-> A[<<a, b>>].relation,
          confidence |-> A[<<a, b>>].confidence, path_len |-> 2,
          direct |-> TRUE]
    ELSE LET n == ReferencePathNodes(E, N, a, b)
         IN  IF n > 0
             THEN [exists |-> TRUE, relation_type |-> "indirect",
                   confidence |-> (7 * Unit) \div (10 * n), path_len |-> n,
                   direct |-> FALSE]
             ELSE [exists |-> FALSE, relation_type |-> "None",
                   confidence |-> 0, path_len |-> 0, direct |-> FALSE]

---------------------------------------------------------------------------
(* C16: the returned path and the insertion order *)

\* The edge list after the given add_verified_fact calls, made in order on
\* the edge list E.
RECURSIVE EdgesAfterCalls(_, _)
EdgesAfterCalls(E, calls) ==
    IF calls = <<>> THEN E
    ELSE EdgesAfterCalls(AddEdgeSeq(E, Head(calls).a, Head(calls).b),
                         Tail(calls))

\* The calls made so far, in the order given by the permutation.
CallsInOrder(perm) == [i \in 1..Len(factLog) |-> factLog[perm[i]].args]

\* C16: the path returned by query_relationship is reproducible: for two
\* graphs with the same node set and the same edge set built by different
\* insertion orders, query_relationship(a, b) returns the same path.  The
\* second graph is the one built from the seed by the same calls in
\* another order.
C16_PathIndependentOfInsertionOrder ==
    lastOp = "query_relationship" =>
        \A perm \in Permutations(1..Len(factLog)) :
            LET E2 == EdgesAfterCalls(SeedEdges, CallsInOrder(perm))
            IN  Range(E2) = Range(semEdges) =>
                    QueryPath(semNodes, E2, lastQuery.a, lastQuery.b)
                        = lastQuery.path

---------------------------------------------------------------------------
(* C17: the semantic axis *)

\* C17: the semantic axis of calculate_dissonance is 0 when there is no
\* claim or the claim lacks an entity; 0.95 when query_relationship finds
\* no relationship between the claim entities; 0.70 when a relationship is
\* found but its label differs from the relation the claim requests; and
\* 1 - confidence of the found relationship when the label matches or the
\* claim requests no relation.
C17_SemanticAxis ==
    lastOp = "calculate_dissonance" =>
        LET claim == lastResult.claim
            semantic == lastResult.result.semantic
            found == QueryRelationship(semNodes, semEdges, edgeAttr,
                                       claim.entity_a, claim.entity_b)
        IN  IF ~claim.present \/ claim.entity_a = "None"
                              \/ claim.entity_b = "None"
            THEN semantic = 0
            ELSE /\ ~found.exists => semantic = (95 * Unit) \div 100
                 /\ (/\ found.exists
                     /\ claim.relation # "None"
                     /\ found.relation_type # claim.relation)
                       => semantic = (70 * Unit) \div 100
                 /\ (/\ found.exists
                     /\ claim.relation = "None"
                           \/ found.relation_type = claim.relation)
                       => semantic = Unit - found.confidence

\* C17's case: the edge Marc_Hesse_FineArt -> Hahnemuehle was relabelled
\* 'manufactures' with confidence 0.9, and a claim requesting that relation
\* scores 0.1 on the semantic axis.
C17_Witness ==
    /\ lastOp = "calculate_dissonance"
    /\ lastResult.claim.entity_a = "Marc_Hesse_FineArt"
    /\ lastResult.claim.entity_b = "Hahnemuehle"
    /\ lastResult.claim.relation = "manufactures"
    /\ edgeAttr[<<"Marc_Hesse_FineArt", "Hahnemuehle">>].relation
          = "manufactures"
    /\ edgeAttr[<<"Marc_Hesse_FineArt", "Hahnemuehle">>].confidence
          = (9 * Unit) \div 10
    /\ lastResult.result.semantic = Unit \div 10

---------------------------------------------------------------------------
(* C18: the epistemic axis *)

\* 0.4 for a claim entity that is named and is not a node of the knowledge
\* graph, 0 otherwise.
AbsentEntityPenalty(entity) ==
    IF entity # "None" /\ ~HasNode(semNodes, entity)
    THEN (4 * Unit) \div 10 ELSE 0

\* C18: the epistemic axis of calculate_dissonance is 0.75 whenever a
\* temporal-recency marker occurs in the text; otherwise, with a claim
\* present, it is 0.4 times the number of claim entities that are absent
\* from the knowledge graph, capped at 0.9: an entity that is a node of the
\* queried graph contributes 0 and one that is not a node of it
\* contributes 0.4; with no claim it is 0.
C18_EpistemicAxis ==
    lastOp = "calculate_dissonance" =>
        LET claim == lastResult.claim
            epistemic == lastResult.result.epistemic
        IN  IF lastResult.text.time THEN epistemic = (75 * Unit) \div 100
            ELSE IF claim.present
            THEN epistemic = Min(AbsentEntityPenalty(claim.entity_a)
                                    + AbsentEntityPenalty(claim.entity_b),
                                 (9 * Unit) \div 10)
            ELSE epistemic = 0

---------------------------------------------------------------------------
(* C19: the scorer's session statistics *)

\* The number of results in the sequence with should_inhibit true.
RECURSIVE CountInhibited(_)
CountInhibited(h) ==
    IF h = <<>> THEN 0
    ELSE (IF Head(h).should_inhibit THEN 1 ELSE 0) + CountInhibited(Tail(h))

\* C19: after any sequence of calculate_dissonance and reset_session calls,
\* total_detections equals the length of the history buffer and the number
\* of calculate calls since the last reset; inhibitions_triggered equals
\* the number of those results with should_inhibit true (so it is at most
\* total_detections); and immediately after reset_session the history is
\* empty and both counters are 0.
C19_SessionStatistics ==
    /\ total_detections = Len(detection_history)
    /\ total_detections = calcCalls
    /\ inhibitions_triggered = CountInhibited(detection_history)
    /\ inhibitions_triggered <= total_detections
    /\ lastResult.called /\ lastOp = "calculate_dissonance"
          => detection_history[Len(detection_history)] = lastResult.result
    /\ lastOp = "reset_session"
          => /\ detection_history = <<>>
             /\ total_detections = 0
             /\ inhibitions_triggered = 0

\* C19's case: two scorings since the last reset, the first inhibiting,
\* the second not.
C19_Witness ==
    /\ lastResult.called
    /\ lastOp = "calculate_dissonance"
    /\ calcCalls = 2
    /\ total_detections = 2
    /\ detection_history[1].should_inhibit
    /\ ~detection_history[2].should_inhibit
    /\ inhibitions_triggered = 1

---------------------------------------------------------------------------
(* C20: tokens saved and alternative payload of a Decision *)

\* The fields of the last decision are as C20 says for its action.
DecisionFieldsMatchAction ==
    /\ lastDecision.action \in {"abort", "reframe"}
          => lastDecision.tokens_saved
                = lastDecision.total_tokens_planned - lastDecision.token_index
    /\ lastDecision.action \in {"add_uncertainty", "continue"}
          => lastDecision.tokens_saved = 0
    /\ lastDecision.alternative = "None" <=> lastDecision.action = "continue"

\* C20: decide_action returns a Decision in which tokens_saved equals the
\* tokens remaining (total_tokens_planned - token_index) when the action is
\* abort or reframe and equals 0 when the action is add_uncertainty or
\* continue, and in which the alternative payload is absent exactly when
\* the action is continue.
C20_TokensSavedAndAlternative ==
    lastDecision.called =>
        /\ ~lastDecision.raised
        /\ DecisionFieldsMatchAction

\* C20 for the calls that return: every Decision that decide_action does
\* return (abort, reframe, continue) has the fields C20 gives for its
\* action.
C20_ReturnedDecisions ==
    (lastDecision.called /\ ~lastDecision.raised) => DecisionFieldsMatchAction

---------------------------------------------------------------------------
(* C21: statistics under concurrent calls *)

\* Every call begun has run to its return.
AllCallsComplete == \A t \in ThreadIds : threads[t].pc = "idle"

\* C21: no lost updates on statistics under concurrent use: when two or
\* more calculate_dissonance calls on the same scorer run concurrently and
\* all complete, the total counter has increased by exactly the number of
\* calls and the history holds one entry per call, for every interleaving.
C21_NoLostUpdates ==
    AllCallsComplete =>
        /\ total_detections = calcCalls
        /\ Len(detection_history) = calcCalls

---------------------------------------------------------------------------
(* C22: readers during ingestion *)

\* C22: ingestion is exclusive with respect to readers: a get_node_info or
\* query_relationship running concurrently with add_verified_fact(a, b, ..)
\* never observes a partially updated graph, that is a state in which a
\* placeholder endpoint created by that call is visible but the call's
\* edge is not yet present.  The reader that has just returned did not
\* find, as a node of the knowledge graph, a placeholder of a call that
\* has not yet added its edge.
C22_ReadersSeeWholeIngestion ==
    \A t \in ThreadIds :
        (/\ threads[t].pc = "add_edge"
         /\ ~HasEdge(semEdges, threads[t].fact.a, threads[t].fact.b)
         /\ lastOp = "get_node_info")
            => ~(/\ lastQuery.a \in threads[t].created
                 /\ lastQuery.info = "semantic")

---------------------------------------------------------------------------
(* C23: Scenario A, two known and unconnected entities *)

\* The last scoring was given a claim naming two entities.
ClaimWithTwoEntities ==
    /\ lastOp = "calculate_dissonance"
    /\ lastResult.claim.present
    /\ lastResult.claim.entity_a # "None"
    /\ lastResult.claim.entity_b # "None"

\* Both claim entities are nodes of the graph and no path of at most 4
\* nodes leads from the first to the second.
KnownAndUnconnected ==
    /\ HasNode(semNodes, lastResult.claim.entity_a)
    /\ HasNode(semNodes, lastResult.claim.entity_b)
    /\ ReferencePathNodes(semEdges, semNodes, lastResult.claim.entity_a,
                          lastResult.claim.entity_b) = 0

---------------------------------------------------------------------------
(* C24: Scenario D, self-contradiction phrases without a claim *)

\* The list position of the first listed phrase that occurs in the text.
FirstPhrase(phrases) == CHOOSE i \in phrases : \A j \in phrases : i <= j

\* C24: Scenario D generalised: when the text contains one or more listed
\* self-contradiction phrases, no temporal marker, and no claim is given,
\* the self-consistency axis equals the severity bound to the first phrase
\* in list order that occurs (not the maximum), semantic and epistemic are
\* 0, the total is 0.05 x that severity (at most 0.045), and the level is
\* none with should_inhibit false.
C24_ScenarioD ==
    (/\ lastOp = "calculate_dissonance"
     /\ lastResult.text.phrases # {}
     /\ ~lastResult.text.time
     /\ ~lastResult.claim.present)
        => LET severity == IF FirstPhrase(lastResult.text.phrases) = 1
                                THEN (6 * Unit) \div 10
                           ELSE IF FirstPhrase(lastResult.text.phrases) = 2
                                THEN (8 * Unit) \div 10
                           ELSE IF FirstPhrase(lastResult.text.phrases) = 3
                                THEN (7 * Unit) \div 10
                           ELSE (9 * Unit) \div 10
           IN  /\ lastResult.result.self_model = severity
               /\ lastResult.result.semantic = 0
               /\ lastResult.result.epistemic = 0
               /\ lastResult.result.score = 5 * severity
               /\ 1000 * lastResult.result.score <= 45 * 100 * Unit
               /\ lastResult.result.inhibition_level = "none"
               /\ ~lastResult.result.should_inhibit

\* C24's case: the text holds the second and the third phrase (severities
\* 0.8 and 0.7) and the first of them, not the smaller, decides; an earlier
\* scoring of the session saw the first and the fourth phrase (0.6, 0.9).
C24_Witness ==
    /\ lastOp = "calculate_dissonance"
    /\ lastResult.text.phrases = {2, 3}
    /\ ~lastResult.text.time
    /\ ~lastResult.claim.present
    /\ lastResult.result.self_model = (8 * Unit) \div 10
    /\ Len(detection_history) = 2
    /\ detection_history[1].self_model = (6 * Unit) \div 10

---------------------------------------------------------------------------
(* C25: search_nodes returns at most limit matching nodes, each once, in
   insertion order *)

\* The matching nodes of the graph, in node insertion order.
MatchingInOrder(query) ==
    SelectSeq(semNodes, LAMBDA n : MatchesQuery(nodeAttr, n, query))

\* C25: after search_nodes(query, limit) the result has at most limit entries,
\* every entry matches the query, no node occurs twice, and the entries are
\* the first matching nodes in node insertion order.
C25_SearchResult ==
    (lastOp = "search_nodes") =>
        LET r == lastSearch.results
            m == MatchingInOrder(lastSearch.query)
        IN  /\ Len(r) <= lastSearch.limit
            /\ \A i \in 1..Len(r) : MatchesQuery(nodeAttr, r[i], lastSearch.query)
            /\ \A i, j \in 1..Len(r) : r[i] = r[j] => i = j
            /\ Len(r) <= Len(m)
            /\ r = SubSeq(m, 1, Len(r))
            /\ (Len(r) < lastSearch.limit => r = m)

\* The same for limits that are not negative: holds.
C25_SearchResultForNaturalLimit ==
    (lastOp = "search_nodes" /\ lastSearch.limit >= 0) => C25_SearchResult

---------------------------------------------------------------------------
(* C26: an 'indirect' answer carries a genuine indirect path *)

\* C26: whenever query_relationship(a, b) answers relation_type 'indirect', the
\* returned path starts at a, ends at b, has 3 or 4 nodes, every consecutive
\* pair of its nodes is a directed edge, and the confidence is 0.7/3 or 0.7/4;
\* also for a = b.
C26_IndirectIsGenuine ==
    (lastOp = "query_relationship" /\ lastQuery.result.relation_type = "indirect") =>
        LET path == lastQuery.path
        IN  /\ Len(path) \in {3, 4}
            /\ path[1] = lastQuery.a
            /\ path[Len(path)] = lastQuery.b
            /\ \A i \in 1..(Len(path) - 1) : HasEdge(semEdges, path[i], path[i + 1])
            /\ lastQuery.result.confidence = (7 * Unit) \div (10 * Len(path))

\* The same for two different ids: holds.
C26_IndirectIsGenuineForDistinctIds ==
    (lastOp = "query_relationship" /\ lastQuery.a # lastQuery.b) =>
        C26_IndirectIsGenuine

---------------------------------------------------------------------------
(* C27: an unrelated pair without self-contradiction phrase is reframed,
   never aborted *)

\* The last scored claim names two entities without relationship in the graph.
UnrelatedEntities ==
    /\ lastResult.called
    /\ lastResult.claim.present
    /\ lastResult.claim.entity_a # "None"
    /\ lastResult.claim.entity_b # "None"
    /\ ~QueryRelationship(semNodes, semEdges, edgeAttr,
                          lastResult.claim.entity_a,
                          lastResult.claim.entity_b).exists

---------------------------------------------------------------------------
(* C28: the scoring and decision path only reads the knowledge graph *)

\* Nodes, edges, their attributes and the episodic log.
KnowledgeGraph == <<semNodes, nodeAttr, semEdges, edgeAttr, epiNodes, epiAttr>>

ReaderOps ==
    {"calculate_dissonance", "decide_action", "query_relationship",
     "get_node_info", "search_nodes"}

\* C28: a step of calculate_dissonance, decide_action, query_relationship,
\* get_node_info or search_nodes leaves the node set, the edge set, all node
\* and edge attributes and the episodic log unchanged; a step that changes
\* one of them is a step of add_verified_fact.
C28_ReadersLeaveGraphUnchanged ==
    [][/\ (lastOp' \in ReaderOps => UNCHANGED KnowledgeGraph)
       /\ (KnowledgeGraph' # KnowledgeGraph => lastOp' = "add_verified_fact")]_vars

\* A fact was ingested, then a claim on its entities was scored: the graph is
\* still the one the ingestion left.
C28_Witness ==
    /\ lastOp = "calculate_dissonance"
    /\ lastResult.called
    /\ lastResult.claim.entity_b = "NewCo"
    /\ Len(factLog) = 1
    /\ factLog[1].args.b = "NewCo"
    /\ HasNode(semNodes, "NewCo")
    /\ NumberOfNodes(semNodes) = factLog[1].nodes_after
    /\ NumberOfEdges(semEdges) = factLog[1].edges_after
    /\ Len(epiNodes) = factLog[1].events_after

---------------------------------------------------------------------------
(* C29: crawl_topic terminates, within max_pages and max_depth, and fetches
   no page twice *)

\* C29 (safety part): crawl_topic never counts more than max_pages crawled
\* pages, never fetches a page at a depth greater than max_depth, and never
\* fetches again a page it already crawled successfully.
C29_CrawlWithinLimits ==
    /\ crawl.pages_crawled <= crawl.max_pages
    /\ crawl.fetch.made =>
          /\ crawl.fetch.depth <= crawl.max_depth
          /\ ~crawl.fetch.again

\* C29 (termination part): a started crawl_topic returns.
C29_CrawlTerminates == (crawl.pc = "loop") ~> (crawl.pc = "idle")

\* What holds of the limits: the count and the depth are bounded, and a page
\* is fetched again only under a name that differs from the cached one.
C29_CrawlWithinLimitsByName ==
    /\ crawl.pages_crawled <= crawl.max_pages
    /\ crawl.fetch.made =>
          /\ crawl.fetch.depth <= crawl.max_depth
          /\ crawl.fetch.again =>
                \E other \in crawl.crawled_pages :
                    other # crawl.fetch.page /\ Unquote(other) = crawl.fetch.title

---------------------------------------------------------------------------
(* C30: _make_request makes at most max_retries attempts *)

\* C30: a call of _make_request makes at most max_retries (3) HTTP attempts;
\* every attempt but the last one ended in 429, another non-200 status, a
\* timeout or a connection failure while the attempt number was below
\* max_retries; the parsed response is returned on the first 200; None is
\* returned after the last failed attempt or at once on any other exception.
C30_AtMostMaxRetriesAttempts ==
    LET o == request.outcomes
        n == Len(o)
    IN  /\ request.attempts = n
        /\ n <= max_retries
        /\ \A i \in 1..(n - 1) : o[i] \in Retryable /\ i < max_retries
        /\ request.pc = "running" =>
              /\ request.attempt = n + 1
              /\ request.attempt <= max_retries
              /\ \A i \in 1..n : o[i] \in Retryable
        /\ request.returned = "json" => (n >= 1 /\ o[n] = "200")
        /\ (n >= 1 /\ o[n] = "200") => request.returned = "json"
        /\ request.returned = "None" =>
              /\ n >= 1
              /\ \/ o[n] \in Retryable /\ n = max_retries
                 \/ o[n] \in {"bad_json", "exception"}
        /\ (n >= 1 /\ o[n] \in Retryable /\ n < max_retries) =>
              request.pc = "running"

\* Three failed attempts of three kinds, then None.
C30_Witness ==
    /\ request.pc = "idle"
    /\ request.outcomes = <<"429", "timeout", "status">>
    /\ request.attempts = max_retries
    /\ request.returned = "None"

===========================================================================
